---- MODULE Spec2Model ----
(***************************************************************************)
(* City autocomplete service: the search route of                          *)
(* src/app/routes/city-autocomplete.js with its IP geolocation cache, and  *)
(* the earlier iterations of the same route kept in the repository.        *)
(*                                                                         *)
(* Conventions                                                             *)
(*  - a string is a sequence of one-character strings, so that prefix,     *)
(*    substring and case conversion are computed and not assumed;          *)
(*  - an IP address is a sequence of tokens ("::ffff:", "172.", ...);      *)
(*  - time is in milliseconds, as Date.now();                              *)
(*  - a coordinate is an integer number of 1e-4 degrees;                   *)
(*  - a component score is an integer number of 1/ScoreUnit, and a final   *)
(*    score is ten times the weighted sum (weights 2/7/1 for 0.2/0.7/0.1), *)
(*    so that all the arithmetic of the handlers stays in the integers.    *)
(***************************************************************************)
EXTENDS Integers, Sequences, FiniteSets, TLC

VARIABLES
    now,              \* Date.now()
    ipLocationCache,  \* Map: normalized ip -> [location, timestamp]
    reqs,             \* the requests: position in the handler, inputs, response
    trace,            \* history of the calls of getLocationFromIP, in order
    filtersCache,     \* [data, timestamp] of router.get('/filters')
    statesCache       \* Map: countryCode -> [states, timestamp]

vars == <<now, ipLocationCache, reqs, trace, filtersCache, statesCache>>

----------------------------------------------------------------------------
(* Bounds of the model *)

MaxReq == 2      \* requests of a behaviour of SpecGeo
MaxSearch == 1   \* requests of a behaviour of Spec
MaxTicks == 3    \* clock steps of a behaviour
MaxPages == 2    \* requests of a behaviour of SpecPages
MaxCacheReq == 2 \* requests of a behaviour of SpecCaches
MaxFlight == 3   \* requests of a behaviour of SpecFlight
MaxLocal == 2    \* requests of a behaviour of SpecLocal
MaxLen == 3      \* length of the names and queries of SpecText
MaxAll == 2      \* requests of a behaviour of SpecAll
MaxPool == 2     \* requests of a behaviour of SpecPool

----------------------------------------------------------------------------
(* Time *)

CACHE_TTL == 24 * 60 * 60 * 1000

\* the clock advances by half a TTL: ages 0, TTL/2, TTL, 3TTL/2 all occur
TickStep == CACHE_TTL \div 2

----------------------------------------------------------------------------
(* Strings *)

UpperChars == <<"A", "B", "F", "R", "U", "S">>
LowerChars == <<"a", "b", "f", "r", "u", "s">>

LowerChar(c) ==
    IF \E i \in 1..Len(UpperChars) : UpperChars[i] = c
    THEN LowerChars[CHOOSE i \in 1..Len(UpperChars) : UpperChars[i] = c]
    ELSE c

UpperChar(c) ==
    IF \E i \in 1..Len(LowerChars) : LowerChars[i] = c
    THEN UpperChars[CHOOSE i \in 1..Len(LowerChars) : LowerChars[i] = c]
    ELSE c

toLowerCase(s) == [i \in 1..Len(s) |-> LowerChar(s[i])]
\* String.prototype.toUpperCase: the sharp s has no capital of its own and
\* becomes SS
RECURSIVE toUpperCase(_)
toUpperCase(s) ==
    IF s = <<>> THEN <<>>
    ELSE IF Head(s) = "ß" THEN <<"S", "S">> \o toUpperCase(Tail(s))
    ELSE <<UpperChar(Head(s))>> \o toUpperCase(Tail(s))

\* mutant: the address is used as received
replace_nothing(ip, pat) == ip

\* String.prototype.replace(pattern, '') on a token sequence: the FIRST
\* occurrence of the token is removed, wherever it is
RECURSIVE replace(_, _)
replace(ip, pat) ==
    IF ip = <<>> THEN <<>>
    ELSE IF Head(ip) = pat THEN Tail(ip)
    ELSE <<Head(ip)>> \o replace(Tail(ip), pat)

----------------------------------------------------------------------------
(* Geolocation resolver: getLocationFromIP *)

V6Prefix == "::ffff:"

defaultLocation == [lat |-> 506333, lon |-> 30667]

null == [null |-> TRUE]          \* JS null / undefined
NoBody == [kind |-> "none"]

\* what the upstream service may answer: an unparsable body, the JSON value
\* null, or an object whose lat / lon are absent, 0 or a non-zero number
UpstreamBodies ==
    {[kind |-> "malformed"], [kind |-> "null"]}
    \cup [kind : {"object"}, hasLat : BOOLEAN, lat : {0, 488566},
          hasLon : BOOLEAN, lon : {0, 23522}]

\* bodies are kept canonical: an absent field carries 0
CanonicalBodies ==
    {b \in UpstreamBodies :
        b.kind = "object" => /\ (~b.hasLat => b.lat = 0)
                             /\ (~b.hasLon => b.lon = 0)}

cacheHas(key) == key \in DOMAIN ipLocationCache

cacheSet(key, entry) ==
    [k \in DOMAIN ipLocationCache \cup {key} |->
        IF k = key THEN entry ELSE ipLocationCache[k]]

\* mutant: an entry that has just reached CACHE_TTL is still served
cacheFresh_inclusive(key) ==
    /\ cacheHas(key)
    /\ now - ipLocationCache[key].timestamp <= CACHE_TTL

\* cached && Date.now() - cached.timestamp < CACHE_TTL
cacheFresh(key) ==
    /\ cacheHas(key)
    /\ now - ipLocationCache[key].timestamp < CACHE_TTL

\* ip === '127.0.0.1' || ip.startsWith('172.') || ip.startsWith('192.168.')
isLocalIp(ip) ==
    \/ ip = <<"127.0.0.1">>
    \/ ip # <<>> /\ Head(ip) = "172."
    \/ ip # <<>> /\ Head(ip) = "192.168."

\* result && result.lat && result.lon  (JS truthiness: 0 is falsy)
hasLocationData(body) ==
    /\ body.kind = "object"
    /\ body.hasLat /\ body.lat # 0
    /\ body.hasLon /\ body.lon # 0

Event(r, key, kind, loc, body) ==
    [r |-> r, key |-> key, kind |-> kind, t |-> now, loc |-> loc, body |-> body]

\* the promise of getLocationFromIP resolves: the awaiting handler goes on
resolveWith(r, rec, location) ==
    reqs' = [reqs EXCEPT ![r] = [rec EXCEPT !.pc = "db", !.userLocation = location]]

\* mutant: a call served from the cache renews the timestamp of the entry
getLocationFromIP_touch(r, rec, ip) ==
    LET key == replace(ip, V6Prefix) IN
    IF cacheFresh(key) THEN
        /\ resolveWith(r, [rec EXCEPT !.key = key], ipLocationCache[key].location)
        /\ trace' = Append(trace, Event(r, key, "hit", ipLocationCache[key].location, NoBody))
        /\ ipLocationCache' = cacheSet(key, [location |-> ipLocationCache[key].location,
                                             timestamp |-> now])
    ELSE IF isLocalIp(key) THEN
        /\ ipLocationCache' = cacheSet(key, [location |-> defaultLocation, timestamp |-> now])
        /\ resolveWith(r, [rec EXCEPT !.key = key], defaultLocation)
        /\ trace' = Append(trace, Event(r, key, "local", defaultLocation, NoBody))
    ELSE
        /\ reqs' = [reqs EXCEPT ![r] = [rec EXCEPT !.key = key, !.pc = "geo"]]
        /\ trace' = Append(trace, Event(r, key, "lookup", null, NoBody))
        /\ UNCHANGED ipLocationCache

\* mutant: the local test is made on the address before the prefix is removed
getLocationFromIP_rawLocal(r, rec, ip) ==
    LET key == replace(ip, V6Prefix) IN
    IF cacheFresh(key) THEN
        /\ resolveWith(r, [rec EXCEPT !.key = key], ipLocationCache[key].location)
        /\ trace' = Append(trace, Event(r, key, "hit", ipLocationCache[key].location, NoBody))
        /\ UNCHANGED ipLocationCache
    ELSE IF isLocalIp(ip) THEN
        /\ ipLocationCache' = cacheSet(key, [location |-> defaultLocation, timestamp |-> now])
        /\ resolveWith(r, [rec EXCEPT !.key = key], defaultLocation)
        /\ trace' = Append(trace, Event(r, key, "local", defaultLocation, NoBody))
    ELSE
        /\ reqs' = [reqs EXCEPT ![r] = [rec EXCEPT !.key = key, !.pc = "geo"]]
        /\ trace' = Append(trace, Event(r, key, "lookup", null, NoBody))
        /\ UNCHANGED ipLocationCache

\* the synchronous part of getLocationFromIP(ip), called by request r
getLocationFromIP(r, rec, ip) ==
    LET key == replace(ip, V6Prefix) IN
    IF cacheFresh(key) THEN
        /\ resolveWith(r, [rec EXCEPT !.key = key], ipLocationCache[key].location)
        /\ trace' = Append(trace, Event(r, key, "hit", ipLocationCache[key].location, NoBody))
        /\ UNCHANGED ipLocationCache
    ELSE IF isLocalIp(key) THEN
        /\ ipLocationCache' = cacheSet(key, [location |-> defaultLocation, timestamp |-> now])
        /\ resolveWith(r, [rec EXCEPT !.key = key], defaultLocation)
        /\ trace' = Append(trace, Event(r, key, "local", defaultLocation, NoBody))
    ELSE
        /\ reqs' = [reqs EXCEPT ![r] = [rec EXCEPT !.key = key, !.pc = "geo"]]
        /\ trace' = Append(trace, Event(r, key, "lookup", null, NoBody))
        /\ UNCHANGED ipLocationCache

\* mutant: the location of the upstream answer is returned but not cached
onEnd_notCached(r, body) ==
    LET key == reqs[r].key IN
    IF body.kind # "malformed" /\ hasLocationData(body) THEN
        LET location == [lat |-> body.lat, lon |-> body.lon] IN
        /\ UNCHANGED ipLocationCache
        /\ resolveWith(r, reqs[r], location)
        /\ trace' = Append(trace, Event(r, key, "ok", location, body))
    ELSE
        /\ ipLocationCache' = cacheSet(key, [location |-> defaultLocation, timestamp |-> now])
        /\ resolveWith(r, reqs[r], defaultLocation)
        /\ trace' = Append(trace,
                Event(r, key, IF body.kind = "malformed" THEN "malformed" ELSE "missing",
                      defaultLocation, body))

\* res.on('end'): the body is parsed and the location, or the default one,
\* is cached and returned
onEnd(r, body) ==
    LET key == reqs[r].key IN
    IF body.kind = "malformed" THEN
        /\ ipLocationCache' = cacheSet(key, [location |-> defaultLocation, timestamp |-> now])
        /\ resolveWith(r, reqs[r], defaultLocation)
        /\ trace' = Append(trace, Event(r, key, "malformed", defaultLocation, body))
    ELSE IF hasLocationData(body) THEN
        LET location == [lat |-> body.lat, lon |-> body.lon] IN
        /\ ipLocationCache' = cacheSet(key, [location |-> location, timestamp |-> now])
        /\ resolveWith(r, reqs[r], location)
        /\ trace' = Append(trace, Event(r, key, "ok", location, body))
    ELSE
        /\ ipLocationCache' = cacheSet(key, [location |-> defaultLocation, timestamp |-> now])
        /\ resolveWith(r, reqs[r], defaultLocation)
        /\ trace' = Append(trace, Event(r, key, "missing", defaultLocation, body))

\* mutant: a network error leaves an entry that is already there
onError_keepsEntry(r) ==
    LET key == reqs[r].key IN
    /\ ipLocationCache' =
            IF key \in DOMAIN ipLocationCache THEN ipLocationCache
            ELSE cacheSet(key, [location |-> defaultLocation, timestamp |-> now])
    /\ resolveWith(r, reqs[r], defaultLocation)
    /\ trace' = Append(trace, Event(r, key, "neterror", defaultLocation, NoBody))

\* mutant: the lookup is sent again on a network error
onError_retries(r) ==
    LET key == reqs[r].key IN
    /\ reqs' = reqs
    /\ trace' = Append(trace, Event(r, key, "lookup", null, NoBody))
    /\ UNCHANGED ipLocationCache

\* mutant: the promise is rejected on a network error
onError_rejects(r) ==
    LET key == reqs[r].key IN
    /\ reqs' = [reqs EXCEPT ![r].pc = "db"]
    /\ trace' = Append(trace, Event(r, key, "neterror", null, NoBody))
    /\ UNCHANGED ipLocationCache

\* mutant: the default location is returned on a network error, not cached
onError_notCached(r) ==
    LET key == reqs[r].key IN
    /\ UNCHANGED ipLocationCache
    /\ resolveWith(r, reqs[r], defaultLocation)
    /\ trace' = Append(trace, Event(r, key, "neterror", defaultLocation, NoBody))

\* req.on('error')
onError(r) ==
    LET key == reqs[r].key IN
    /\ ipLocationCache' = cacheSet(key, [location |-> defaultLocation, timestamp |-> now])
    /\ resolveWith(r, reqs[r], defaultLocation)
    /\ trace' = Append(trace, Event(r, key, "neterror", defaultLocation, NoBody))

----------------------------------------------------------------------------
(* Values *)

undefined == [t |-> "undefined"]
Str(s) == [t |-> "string", v |-> s]
Num(n) == [t |-> "number", n |-> n]
SqlNull == [t |-> "null"]

\* JS truthiness of a request parameter (a string or undefined)
truthy(x) == x.t = "string" /\ x.v # <<>>

NULLINT == 0 - 1          \* SQL NULL in an integer or float column
NULLTEXT == <<"NULL">>    \* SQL NULL in a text column

ScoreUnit == 21 * 1000000 \* the component score 1.0

Min(a, b) == IF a < b THEN a ELSE b
Max(a, b) == IF a > b THEN a ELSE b

RECURSIVE IsqrtBin(_, _, _)
\* floor of the square root of n, by bisection of lo..hi
IsqrtBin(n, lo, hi) ==
    IF lo >= hi THEN lo
    ELSE LET mid == (lo + hi + 1) \div 2 IN
         IF mid * mid <= n THEN IsqrtBin(n, mid, hi) ELSE IsqrtBin(n, lo, mid - 1)

sqrt(n) == IsqrtBin(n, 0, 46340)

RECURSIVE log10(_)
\* Math.log10 of a power of ten (the populations of the dataset are powers
\* of ten, so that the logarithm is exact)
log10(n) == IF n < 10 THEN 0 ELSE 1 + log10(n \div 10)

----------------------------------------------------------------------------
(* The dataset: table cities, in storage order *)

City(id, name, cc, sc, lat, lon, pop) ==
    [geoname_id |-> id, city_name |-> name, country_code |-> cc,
     state_code |-> sc, latitude |-> lat, longitude |-> lon, population |-> pop]

FR == <<"F", "R">>
US == <<"U", "S">>

cities == <<
    City(1,  <<"a">>,           FR, <<"A">>,  506333, 30667,  1000),
    City(2,  <<"a", "b">>,      FR, <<"A">>,  488566, 23522,  100),
    City(3,  <<"a", "b">>,      US, <<"B">>,  515074, 0 - 1278, NULLINT),
    City(4,  <<"a", " ", "b">>, US, NULLTEXT, 508503, 43517,  10),
    City(5,  <<"a", "a">>,      FR, <<"B">>,  506333, 30667,  0),
    City(6,  <<"a", "a", "b">>, FR, NULLTEXT, 488566, 23522,  1),
    City(7,  <<"b", "a">>,      US, <<"A">>,  515074, 0 - 1278, 10000000),
    City(8,  <<"b", " ", "a">>, FR, <<"A">>,  508503, 43517,  100000000),
    City(9,  <<"b", "a", "b">>, US, <<"B">>,  488566, 23522,  100000),
    City(10, <<"a", "b", "b">>, FR, <<"B">>,  515074, 0 - 1278, 10000),
    City(11, <<"A", "b">>,      US, <<"A">>,  508503, 43517,  1000000),
    City(12, <<"A">>,           US, <<"A">>,  488566, 23522,  100),
    City(13, <<"b", "b">>,      FR, <<"A">>,  506333, 30667,  1000000),
    City(14, <<"B", "a">>,      US, <<"A">>,  515074, 0 - 1278, 10000000),
    City(15, <<"a", "b", "a">>, US, <<"B">>,  407128, 0 - 740060, 10000000),
    City(16, <<"c">>,           FR, <<"B">>,  506333, 0 - 540762, 10),
    City(17, <<"c", "c">>,      FR, <<"A">>,  506333, 30667,  100000)
>>

NCities == Len(cities)

----------------------------------------------------------------------------
(* The search statement of router.get('/') *)

limit == 10

RECURSIVE Like(_, _)
\* s LIKE p, where % matches any substring and _ any one character
Like(s, p) ==
    IF p = <<>> THEN s = <<>>
    ELSE IF Head(p) = "%" THEN Like(s, Tail(p)) \/ (s # <<>> /\ Like(Tail(s), p))
    ELSE /\ s # <<>>
         /\ (Head(p) = "_" \/ Head(p) = Head(s))
         /\ Like(Tail(s), Tail(p))

\* $n::text of a positional parameter; a number is rendered in digits, which
\* no city name and no pattern of the model contains
asText(p) == IF p.t = "string" THEN p.v ELSE <<"0">>

\* mutant: the filter values are sent as they were received
buildQuery_rawFilters(rq, userLocation) ==
    LET qIdx == IF truthy(rq.query) THEN 1 ELSE 0
        p1 == IF truthy(rq.query) THEN <<Str(rq.query.v)>> ELSE <<>>
        cIdx == IF truthy(rq.country_code) THEN Len(p1) + 1 ELSE 0
        p2 == IF truthy(rq.country_code) THEN Append(p1, Str(rq.country_code.v)) ELSE p1
        sIdx == IF truthy(rq.state_code) THEN Len(p2) + 1 ELSE 0
        p3 == IF truthy(rq.state_code) THEN Append(p2, Str(rq.state_code.v)) ELSE p2
        p4 == IF userLocation # null
              THEN p3 \o <<Num(userLocation.lat), Num(userLocation.lon)>>
              ELSE p3 \o <<SqlNull, SqlNull>>
        off == IF rq.offset.t = "undefined" THEN Num(0) ELSE rq.offset
    IN  [queryParams |-> p4 \o <<Num(limit), off>>,
         paramIndex |-> Len(p3) + 1,
         qIdx |-> qIdx, cIdx |-> cIdx, sIdx |-> sIdx]

\* the WHERE clause and the positional parameters, as the handler builds them
buildQuery(rq, userLocation) ==
    LET qIdx == IF truthy(rq.query) THEN 1 ELSE 0
        p1 == IF truthy(rq.query) THEN <<Str(rq.query.v)>> ELSE <<>>
        cIdx == IF truthy(rq.country_code) THEN Len(p1) + 1 ELSE 0
        p2 == IF truthy(rq.country_code)
              THEN Append(p1, Str(toUpperCase(rq.country_code.v))) ELSE p1
        sIdx == IF truthy(rq.state_code) THEN Len(p2) + 1 ELSE 0
        p3 == IF truthy(rq.state_code)
              THEN Append(p2, Str(toUpperCase(rq.state_code.v))) ELSE p2
        p4 == IF userLocation # null
              THEN p3 \o <<Num(userLocation.lat), Num(userLocation.lon)>>
              ELSE p3 \o <<SqlNull, SqlNull>>
        off == IF rq.offset.t = "undefined" THEN Num(0) ELSE rq.offset
    IN  [queryParams |-> p4 \o <<Num(limit), off>>,
         paramIndex |-> Len(p3) + 1,
         qIdx |-> qIdx, cIdx |-> cIdx, sIdx |-> sIdx]

\* ${whereClause} on one row
whereClause(city, sq) ==
    /\ sq.qIdx # 0 =>
         Like(toLowerCase(city.city_name),
              <<"%">> \o toLowerCase(asText(sq.queryParams[1])) \o <<"%">>)
    /\ sq.cIdx # 0 => city.country_code = asText(sq.queryParams[sq.cIdx])
    /\ sq.sIdx # 0 => city.state_code = asText(sq.queryParams[sq.sIdx])

\* CASE ... END as match_score: always against positional parameter $1
match_score(city, sq) ==
    LET p == sq.queryParams[1]
        name == toLowerCase(city.city_name)
        q == toLowerCase(asText(p))
    IN  IF p.t # "null" /\ name = q THEN ScoreUnit
        ELSE IF p.t # "null" /\ Like(name, q \o <<"%">>) THEN (9 * ScoreUnit) \div 10
        ELSE IF p.t # "null" /\ Like(name, <<"%">> \o q \o <<"%">>) THEN (8 * ScoreUnit) \div 10
        ELSE ScoreUnit

Abs(x) == IF x < 0 THEN 0 - x ELSE x

\* point(a, b) <-> point(c, d): the Euclidean distance, in 1e-4 degrees (the
\* other difference when one is zero, as hypot does; else to the unit below 3
\* degrees, to a hundred units above)
pointDistance(a, b, c, d) ==
    LET dx == Abs(a - c)
        dy == Abs(b - d)
    IN  IF dx = 0 THEN dy
        ELSE IF dy = 0 THEN dx
        ELSE IF dx <= 30000 /\ dy <= 30000
        THEN sqrt(dx * dx + dy * dy)
        ELSE 100 * sqrt((dx \div 100) * (dx \div 100) + (dy \div 100) * (dy \div 100))

\* CASE ... END as distance
distance(city, sq) ==
    LET p == sq.queryParams[sq.paramIndex]
        q == sq.queryParams[sq.paramIndex + 1]
    IN  IF p.t # "null" /\ q.t # "null"
        THEN pointDistance(p.n, q.n, city.latitude, city.longitude)
        ELSE NULLINT

RECURSIVE LexLess(_, _)
\* lexicographic comparison of two integer sequences of the same length
LexLess(a, b) ==
    IF a = <<>> THEN FALSE
    ELSE IF Head(a) # Head(b) THEN Head(a) < Head(b)
    ELSE LexLess(Tail(a), Tail(b))

RECURSIVE SortByKey(_)
\* the records of S (whose keys are distinct) by ascending key
SortByKey(S) ==
    IF S = {} THEN <<>>
    ELSE LET m == CHOOSE x \in S : \A y \in S : ~LexLess(y.key, x.key)
         IN  <<m>> \o SortByKey(S \ {m})

\* ORDER BY match_score DESC, population DESC NULLS LAST, distance ASC NULLS
\* LAST, as the sort key of row i of the table; rows that tie come in an
\* order the statement does not fix: in storage order or in the reverse one
orderBy(i, ms, d, tie) ==
    <<0 - ms,
      IF cities[i].population = NULLINT THEN 1 ELSE 0,
      0 - cities[i].population,
      IF d = NULLINT THEN 1 ELSE 0,
      d,
      IF tie = "asc" THEN i ELSE 0 - i>>

\* SELECT COUNT(*) FROM cities ${whereClause}
total_count(sq) == Cardinality({i \in 1..NCities : whereClause(cities[i], sq)})

\* the rows of search_results: LIMIT $n OFFSET $m of the ordered matches,
\* each with its match_score, distance and the total_count column
searchRows(sq, tie) ==
    LET matching ==
            {[i |-> i,
              match_score |-> match_score(cities[i], sq),
              distance |-> distance(cities[i], sq)] :
                i \in {j \in 1..NCities : whereClause(cities[j], sq)}}
        keyed == {[key |-> orderBy(m.i, m.match_score, m.distance, tie), row |-> m] :
                    m \in matching}
        ordered == SortByKey(keyed)
        lim == sq.queryParams[sq.paramIndex + 2].n
        off == sq.queryParams[sq.paramIndex + 3].n
        page == SubSeq(ordered, off + 1, Min(off + lim, Len(ordered)))
        total == total_count(sq)
    IN  [k \in 1..Len(page) |->
            [city |-> cities[page[k].row.i],
             match_score |-> page[k].row.match_score,
             distance |-> page[k].row.distance,
             total_count |-> total]]

----------------------------------------------------------------------------
(* Scoring and response of router.get('/') *)

\* normalizePopulation(population, maxPopulation)
normalizePopulation(population, maxPopulation) ==
    IF population = NULLINT \/ population = 0 THEN 0
    ELSE (log10(population) * ScoreUnit) \div log10(maxPopulation)

\* city.distance ? Math.max(0, 1 - (city.distance / 1000)) : 0.5
distanceScoreOf(d) ==
    IF d = NULLINT \/ d = 0 THEN ScoreUnit \div 2
    ELSE Max(0, ScoreUnit - (d * (ScoreUnit \div 1000000)) \div 10)

\* the weights of the first iteration in place of 0.2 / 0.7 / 0.1
finalScore_oldWeights(populationScore, textMatchScore, distanceScore) ==
    (populationScore * 3) + (textMatchScore * 5) + (distanceScore * 2)

\* (populationScore * 0.2) + (textMatchScore * 0.7) + (distanceScore * 0.1),
\* times ten
finalScore(populationScore, textMatchScore, distanceScore) ==
    (populationScore * 2) + (textMatchScore * 7) + (distanceScore * 1)

\* the fields of a result that are copied from the row
resultOf(city, score) ==
    [geoname_id |-> city.geoname_id,
     city_name |-> city.city_name,
     country_code |-> city.country_code,
     state_code |-> city.state_code,
     population |-> city.population,
     score |-> score]

\* searchResults.rows.map(city => ...)
scoredResults(rows) ==
    [k \in 1..Len(rows) |->
        LET city == rows[k].city
            populationScore == normalizePopulation(city.population, 10000000)
            textMatchScore == rows[k].match_score
            distanceScore == distanceScoreOf(rows[k].distance)
        IN  resultOf(city, finalScore(populationScore, textMatchScore, distanceScore))]

\* Array.prototype.sort((a, b) => b.score - a.score): stable
sortByScore(results) ==
    LET keyed == {[key |-> <<0 - results[k].score, k>>, row |-> results[k]] :
                    k \in 1..Len(results)}
        sorted == SortByKey(keyed)
    IN  [k \in 1..Len(sorted) |-> sorted[k].row]

parseInt(x) == IF x.t = "undefined" THEN 0 ELSE x.n

\* mutant: hasMore compares the page size alone with the total
response_hasMoreNoOffset(rq, rows) ==
    LET total == IF Len(rows) > 0 THEN rows[1].total_count ELSE 0
        offset == parseInt(rq.offset)
    IN  [status |-> 200,
         data |-> sortByScore(scoredResults(rows)),
         pagination |-> [offset |-> offset,
                         limit |-> limit,
                         total |-> total,
                         hasMore |-> limit < total]]

\* the 200 response built from the rows of the statement
response(rq, rows) ==
    LET total == IF Len(rows) > 0 THEN rows[1].total_count ELSE 0
        offset == parseInt(rq.offset)
    IN  [status |-> 200,
         data |-> sortByScore(scoredResults(rows)),
         pagination |-> [offset |-> offset,
                         limit |-> limit,
                         total |-> total,
                         hasMore |-> (offset + limit) < total]]

errorResponse ==
    [status |-> 500, error |-> "An error occurred while searching for cities",
     details |-> "error.message"]

----------------------------------------------------------------------------
(* Actions *)

Idle == [pc |-> "idle"]

\* requests are numbered in their order of arrival
nextIdle(r) ==
    /\ reqs[r].pc = "idle"
    /\ IF r = 1 THEN TRUE ELSE reqs[r - 1].pc # "idle"

\* mutant: the location is resolved whatever useLocation holds
GetCities_alwaysResolves(r, rq, userIp) ==
    /\ nextIdle(r)
    /\ LET rec == [pc |-> "db", handler |-> "main", rq |-> rq, userIp |-> userIp,
                   key |-> <<>>, userLocation |-> null, response |-> null]
       IN  getLocationFromIP(r, rec, userIp)
    /\ UNCHANGED now
    /\ UNCHANGED <<filtersCache, statesCache>>

\* router.get('/'), up to its first await
GetCities(r, rq, userIp) ==
    /\ nextIdle(r)
    /\ LET rec == [pc |-> "db", handler |-> "main", rq |-> rq, userIp |-> <<>>,
                   key |-> <<>>, userLocation |-> null, response |-> null]
       IN  IF rq.useLocation = "true"
           THEN getLocationFromIP(r, [rec EXCEPT !.userIp = userIp], userIp)
           ELSE /\ reqs' = [reqs EXCEPT ![r] = rec]
                /\ UNCHANGED <<ipLocationCache, trace>>
    /\ UNCHANGED now
    /\ UNCHANGED <<filtersCache, statesCache>>

\* the upstream response has been received entirely
UpstreamEnd(r, body) ==
    /\ reqs[r].pc = "geo"
    /\ reqs[r].handler = "main"
    /\ onEnd(r, body)
    /\ UNCHANGED now
    /\ UNCHANGED <<filtersCache, statesCache>>

\* mutant: a network error of the upstream service fails the search
UpstreamError_fails(r) ==
    /\ reqs[r].pc = "geo"
    /\ reqs[r].handler = "main"
    /\ reqs' = [reqs EXCEPT ![r].pc = "done", ![r].response = errorResponse]
    /\ UNCHANGED <<now, ipLocationCache, trace>>
    /\ UNCHANGED <<filtersCache, statesCache>>

\* the upstream request failed
UpstreamError(r) ==
    /\ reqs[r].pc = "geo"
    /\ reqs[r].handler = "main"
    /\ onError(r)
    /\ UNCHANGED now
    /\ UNCHANGED <<filtersCache, statesCache>>

\* pool.query resolves: scoring, sorting, res.json
QueryOk(r, tie) ==
    /\ reqs[r].pc = "db"
    /\ reqs[r].handler = "main"
    /\ LET sq == buildQuery(reqs[r].rq, reqs[r].userLocation)
       IN  reqs' = [reqs EXCEPT ![r].pc = "done",
                                ![r].response = response(reqs[r].rq, searchRows(sq, tie))]
    /\ UNCHANGED <<now, ipLocationCache, trace>>
    /\ UNCHANGED <<filtersCache, statesCache>>

\* mutant: the 500 is prepared but the statement is sent again
QueryFail_retries(r) ==
    /\ reqs[r].pc = "db"
    /\ reqs[r].response = null
    /\ reqs' = [reqs EXCEPT ![r].response = errorResponse]
    /\ UNCHANGED <<now, ipLocationCache, trace>>
    /\ UNCHANGED <<filtersCache, statesCache>>

\* pool.query rejects: catch, res.status(500)
QueryFail(r) ==
    /\ reqs[r].pc = "db"
    /\ reqs' = [reqs EXCEPT ![r].pc = "done", ![r].response = errorResponse]
    /\ UNCHANGED <<now, ipLocationCache, trace>>
    /\ UNCHANGED <<filtersCache, statesCache>>

Tick ==
    /\ now < (MaxTicks + 2) * TickStep
    /\ now' = now + TickStep
    /\ UNCHANGED <<ipLocationCache, reqs, trace>>
    /\ UNCHANGED <<filtersCache, statesCache>>

----------------------------------------------------------------------------
(* The first iteration of the route: substring search, scorer without edit *)
(* distance, weights 0.3 / 0.5 / 0.2, no geolocation cache                 *)

NegInfinity == 0 - 2000000000   \* the JS number -Infinity

startsWith(s, p) == Len(p) <= Len(s) /\ SubSeq(s, 1, Len(p)) = p
endsWith(s, p) == Len(p) <= Len(s) /\ SubSeq(s, Len(s) - Len(p) + 1, Len(s)) = p
includes(s, p) == \E i \in 1..(Len(s) - Len(p) + 1) : SubSeq(s, i, i + Len(p) - 1) = p

RECURSIVE skipSpaces(_)
skipSpaces(s) == IF s # <<>> /\ Head(s) = " " THEN skipSpaces(Tail(s)) ELSE s

RECURSIVE splitFrom(_, _)
splitFrom(s, word) ==
    IF s = <<>> THEN <<word>>
    ELSE IF Head(s) = " " THEN <<word>> \o splitFrom(skipSpaces(Tail(s)), <<>>)
    ELSE splitFrom(Tail(s), Append(word, Head(s)))

\* String.prototype.split(/\s+/): a leading or trailing run of spaces
\* yields an empty first or last word
split(s) == splitFrom(s, <<>>)

\* calculateTextMatchScore(cityName, query) of the first iteration
calculateTextMatchScoreV1(cityName, query) ==
    LET cityLower == toLowerCase(cityName)
        queryLower == toLowerCase(query)
        words == split(cityLower)
        queryWords == split(queryLower)
    IN  IF cityLower = queryLower THEN ScoreUnit
        ELSE IF startsWith(cityLower, queryLower) THEN (95 * ScoreUnit) \div 100
        ELSE IF \/ includes(cityLower, <<" ">> \o queryLower \o <<" ">>)
                \/ startsWith(cityLower, queryLower \o <<" ">>)
                \/ endsWith(cityLower, <<" ">> \o queryLower)
             THEN (8 * ScoreUnit) \div 10
        ELSE IF includes(cityLower, queryLower) THEN (6 * ScoreUnit) \div 10
        ELSE IF \E i \in 1..Len(words), j \in 1..Len(queryWords) :
                    startsWith(words[i], queryWords[j])
             THEN (5 * ScoreUnit) \div 10
        ELSE (2 * ScoreUnit) \div 10

\* normalizePopulation of the first iteration: no guard, so that a null or
\* zero population gives Math.log10(0) = -Infinity
normalizePopulationV1(population, maxPopulation) ==
    IF population = NULLINT \/ population = 0 THEN NegInfinity
    ELSE (log10(population) * ScoreUnit) \div log10(maxPopulation)

\* calculateDistance(lat1, lon1, lat2, lon2): the haversine distance, in
\* metres, tabulated from the formula for the points of the model
calculateDistance(lat1, lon1, lat2, lon2) ==
    LET Lille == <<506333, 30667>>
        Paris == <<488566, 23522>>
        London == <<515074, 0 - 1278>>
        Brussels == <<508503, 43517>>
        NewYork == <<407128, 0 - 740060>>
        Labrador == <<506333, 0 - 540762>>
        a == <<lat1, lon1>>
        b == <<lat2, lon2>>
        Pair(x, y) == (a = x /\ b = y) \/ (a = y /\ b = x)
    IN  CASE a = b -> 0
          [] Pair(Lille, Paris) -> 204119
          [] Pair(Lille, London) -> 243420
          [] Pair(Lille, Brussels) -> 93583
          [] Pair(Lille, NewYork) -> 5813081
          [] Pair(Paris, London) -> 343556
          [] Pair(Paris, Brussels) -> 263975
          [] Pair(Paris, NewYork) -> 5837241
          [] Pair(Lille, Labrador) -> 3927135
          [] Pair(Paris, Labrador) -> 3960002

\* Math.max(0, 1 - (distance / 1000)), the distance in metres
distanceScoreKm(metres) ==
    Max(0, ScoreUnit - metres * (ScoreUnit \div 1000000))

\* (populationScore * 0.3) + (textMatchScore * 0.5) + (distanceScore * 0.2),
\* times ten
finalScoreV1(populationScore, textMatchScore, distanceScore) ==
    IF populationScore = NegInfinity THEN NegInfinity
    ELSE (populationScore * 3) + (textMatchScore * 5) + (distanceScore * 2)

pageOf(rq) == IF rq.page.t = "undefined" THEN 1 ELSE rq.page.n
limitOf(rq) == IF rq.limit.t = "undefined" THEN 10 ELSE rq.limit.n

\* SELECT COUNT(*) FROM cities WHERE LOWER(city_name) LIKE LOWER('%query%')
countV1(query) ==
    Cardinality({i \in 1..NCities :
        Like(toLowerCase(cities[i].city_name),
             toLowerCase(<<"%">> \o query \o <<"%">>))})

maxOf(S) == IF S = {} THEN NULLINT
            ELSE CHOOSE x \in S : \A y \in S : y <= x

\* SELECT MAX(population) FROM cities
maxPopulationOf ==
    maxOf({cities[i].population : i \in 1..NCities} \ {NULLINT})

\* ORDER BY CASE ... END, population DESC (nulls first), as the sort key of
\* row i; rows that tie come in storage order or in the reverse one
orderByV1(i, query, tie) ==
    LET name == toLowerCase(cities[i].city_name) IN
    <<IF name = toLowerCase(query) THEN 1
      ELSE IF Like(name, toLowerCase(query \o <<"%">>)) THEN 2
      ELSE 3,
      IF cities[i].population = NULLINT THEN 0 ELSE 1,
      0 - cities[i].population,
      IF tie = "asc" THEN i ELSE 0 - i>>

\* the rows of the search statement: LIMIT limit * 2 OFFSET (page - 1) * limit
searchRowsV1(rq, tie) ==
    LET query == rq.query.v
        matching ==
            {i \in 1..NCities :
                \/ Like(toLowerCase(cities[i].city_name),
                        toLowerCase(<<"%">> \o query \o <<"%">>))
                \/ Like(toLowerCase(cities[i].city_name),
                        toLowerCase(query \o <<"%">>))}
        keyed == {[key |-> orderByV1(i, query, tie), row |-> i] : i \in matching}
        ordered == SortByKey(keyed)
        offset == (pageOf(rq) - 1) * limitOf(rq)
        page == SubSeq(ordered, offset + 1, Min(offset + limitOf(rq) * 2, Len(ordered)))
    IN  [k \in 1..Len(page) |-> cities[page[k].row]]

\* searchResults.rows.map(city => ...) of the first iteration
scoredResultsV1(rows, rq, userLocation) ==
    [k \in 1..Len(rows) |->
        LET city == rows[k]
            populationScore == normalizePopulationV1(city.population, maxPopulationOf)
            textMatchScore == calculateTextMatchScoreV1(city.city_name, rq.query.v)
            distanceScore ==
                IF userLocation # null
                THEN distanceScoreKm(calculateDistance(userLocation.lat, userLocation.lon,
                                                       city.latitude, city.longitude))
                ELSE ScoreUnit \div 2
        IN  resultOf(city, finalScoreV1(populationScore, textMatchScore, distanceScore))]

\* .sort((a, b) => b.score - a.score).slice(0, limit) and the response
responseV1(rq, rows, userLocation) ==
    LET sorted == sortByScore(scoredResultsV1(rows, rq, userLocation))
        total == countV1(rq.query.v)
    IN  [status |-> 200,
         data |-> SubSeq(sorted, 1, Min(limitOf(rq), Len(sorted))),
         pagination |-> [currentPage |-> pageOf(rq),
                         totalPages |-> (total + limitOf(rq) - 1) \div limitOf(rq),
                         totalResults |-> total,
                         resultsPerPage |-> limitOf(rq)]]

queryRequired == [status |-> 400, error |-> "Query parameter is required"]

\* getLocationFromIP of the first and second iterations: no cache
getLocationFromIPv1(r, rec, ip) ==
    LET key == replace(ip, V6Prefix) IN
    IF isLocalIp(key)
    THEN reqs' = [reqs EXCEPT ![r] = [rec EXCEPT !.key = key, !.pc = "db",
                                                 !.userLocation = defaultLocation]]
    ELSE reqs' = [reqs EXCEPT ![r] = [rec EXCEPT !.key = key, !.pc = "geo"]]

\* router.get('/') of the first iteration, up to its first await
GetCitiesV1(r, rq, userIp) ==
    /\ nextIdle(r)
    /\ LET rec == [pc |-> "db", handler |-> "v1", rq |-> rq,
                   key |-> <<>>, userLocation |-> null, response |-> null]
       IN  IF ~truthy(rq.query)
           THEN reqs' = [reqs EXCEPT ![r] = [rec EXCEPT !.pc = "done",
                                                        !.response = queryRequired]]
           ELSE getLocationFromIPv1(r, rec, userIp)
    /\ UNCHANGED <<now, ipLocationCache, trace>>
    /\ UNCHANGED <<filtersCache, statesCache>>

\* res.on('end') of the first and second iterations
UpstreamEndV1(r, body) ==
    /\ reqs[r].pc = "geo"
    /\ reqs[r].handler \in {"v1", "v2"}
    /\ resolveWith(r, reqs[r],
            IF body.kind # "malformed" /\ hasLocationData(body)
            THEN [lat |-> body.lat, lon |-> body.lon]
            ELSE defaultLocation)
    /\ UNCHANGED <<now, ipLocationCache, trace>>
    /\ UNCHANGED <<filtersCache, statesCache>>

\* req.on('error') of the first and second iterations
UpstreamErrorV1(r) ==
    /\ reqs[r].pc = "geo"
    /\ reqs[r].handler \in {"v1", "v2"}
    /\ resolveWith(r, reqs[r], defaultLocation)
    /\ UNCHANGED <<now, ipLocationCache, trace>>
    /\ UNCHANGED <<filtersCache, statesCache>>

\* the three statements resolve: scoring, sorting, res.json
QueryOkV1(r, tie) ==
    /\ reqs[r].pc = "db"
    /\ reqs[r].handler = "v1"
    /\ reqs' = [reqs EXCEPT
            ![r].pc = "done",
            ![r].response = responseV1(reqs[r].rq, searchRowsV1(reqs[r].rq, tie),
                                       reqs[r].userLocation)]
    /\ UNCHANGED <<now, ipLocationCache, trace>>
    /\ UNCHANGED <<filtersCache, statesCache>>

----------------------------------------------------------------------------
(* The second iteration of the route: trigram similarity of pg_trgm as the  *)
(* text score, weights 0.2 / 0.7 / 0.1, no geolocation cache                *)

isAlnum(c) == c \notin {" ", "_", "%"}

RECURSIVE wordsFrom(_, _)
\* the maximal runs of alphanumeric characters of s
wordsFrom(s, word) ==
    IF s = <<>> THEN (IF word = <<>> THEN {} ELSE {word})
    ELSE IF isAlnum(Head(s)) THEN wordsFrom(Tail(s), Append(word, Head(s)))
    ELSE (IF word = <<>> THEN {} ELSE {word}) \cup wordsFrom(Tail(s), <<>>)

\* the trigrams of pg_trgm: every word is padded with two spaces before and
\* one after, and cut in all its substrings of three characters
trigrams(s) ==
    UNION {LET padded == <<" ", " ">> \o w \o <<" ">>
           IN  {SubSeq(padded, i, i + 2) : i \in 1..(Len(padded) - 2)} :
                w \in wordsFrom(s, <<>>)}

\* similarity(a, b) = shared trigrams / all trigrams, as a component score
similarity(a, b) ==
    LET ta == trigrams(a)
        tb == trigrams(b)
    IN  IF ta = {} \/ tb = {} THEN 0
        ELSE (Cardinality(ta \cap tb) * ScoreUnit) \div Cardinality(ta \cup tb)

\* similarity(a, b) > 0.3: the similarity is a float4, and the float4 nearest
\* to 3/10 is above the literal 0.3, so that the ratio 3/10 passes
similarityAbove03(a, b) ==
    LET ta == trigrams(a)
        tb == trigrams(b)
    IN  /\ ta # {} /\ tb # {}
        /\ 10 * Cardinality(ta \cap tb) >= 3 * Cardinality(ta \cup tb)

\* CASE WHEN LOWER(city_name) = LOWER($1) THEN 1.0 ELSE similarity(...) END
match_scoreV2(city, query) ==
    IF toLowerCase(city.city_name) = toLowerCase(query) THEN ScoreUnit
    ELSE similarity(toLowerCase(city.city_name), toLowerCase(query))

\* ORDER BY match_score DESC, population DESC (nulls first)
orderByV2(i, query, tie) ==
    <<0 - match_scoreV2(cities[i], query),
      IF cities[i].population = NULLINT THEN 0 ELSE 1,
      0 - cities[i].population,
      IF tie = "asc" THEN i ELSE 0 - i>>

\* the rows of the search statement: LIMIT limit * 2 OFFSET (page - 1) * limit
searchRowsV2(rq, tie) ==
    LET query == rq.query.v
        matching ==
            {i \in 1..NCities :
                similarityAbove03(toLowerCase(cities[i].city_name), toLowerCase(query))}
        keyed == {[key |-> orderByV2(i, query, tie), row |-> i] : i \in matching}
        ordered == SortByKey(keyed)
        offset == (pageOf(rq) - 1) * limitOf(rq)
        page == SubSeq(ordered, offset + 1, Min(offset + limitOf(rq) * 2, Len(ordered)))
    IN  [k \in 1..Len(page) |->
            [city |-> cities[page[k].row],
             match_score |-> match_scoreV2(cities[page[k].row], query)]]

\* searchResults.rows.map(city => ...) of the second iteration
scoredResultsV2(rows, userLocation) ==
    [k \in 1..Len(rows) |->
        LET city == rows[k].city
            populationScore == normalizePopulation(city.population, maxPopulationOf)
            textMatchScore == rows[k].match_score
            distanceScore ==
                IF userLocation # null
                THEN distanceScoreKm(calculateDistance(userLocation.lat, userLocation.lon,
                                                       city.latitude, city.longitude))
                ELSE ScoreUnit \div 2
        IN  resultOf(city, finalScore(populationScore, textMatchScore, distanceScore))]

\* .sort((a, b) => b.score - a.score).slice(0, limit) and the response
responseV2(rq, rows, userLocation) ==
    LET sorted == sortByScore(scoredResultsV2(rows, userLocation))
        total == countV1(rq.query.v)
    IN  [status |-> 200,
         data |-> SubSeq(sorted, 1, Min(limitOf(rq), Len(sorted))),
         pagination |-> [currentPage |-> pageOf(rq),
                         totalPages |-> (total + limitOf(rq) - 1) \div limitOf(rq),
                         totalResults |-> total,
                         resultsPerPage |-> limitOf(rq)]]

\* router.get('/') of the second iteration, up to its first await
GetCitiesV2(r, rq, userIp) ==
    /\ nextIdle(r)
    /\ LET rec == [pc |-> "db", handler |-> "v2", rq |-> rq,
                   key |-> <<>>, userLocation |-> null, response |-> null]
       IN  IF ~truthy(rq.query)
           THEN reqs' = [reqs EXCEPT ![r] = [rec EXCEPT !.pc = "done",
                                                        !.response = queryRequired]]
           ELSE getLocationFromIPv1(r, rec, userIp)
    /\ UNCHANGED <<now, ipLocationCache, trace>>
    /\ UNCHANGED <<filtersCache, statesCache>>

\* the three statements resolve: scoring, sorting, res.json
QueryOkV2(r, tie) ==
    /\ reqs[r].pc = "db"
    /\ reqs[r].handler = "v2"
    /\ reqs' = [reqs EXCEPT
            ![r].pc = "done",
            ![r].response = responseV2(reqs[r].rq, searchRowsV2(reqs[r].rq, tie),
                                       reqs[r].userLocation)]
    /\ UNCHANGED <<now, ipLocationCache, trace>>
    /\ UNCHANGED <<filtersCache, statesCache>>

----------------------------------------------------------------------------
(* calculateTextMatchScore of the current file: the scorer with the edit   *)
(* distance                                                                *)

\* the row matrix[j] of levenshteinDistance, from the row matrix[j - 1]:
\* row[i + 1] is matrix[j][i]
RECURSIVE fillRow(_, _, _, _)
fillRow(a, bj, prev, row) ==
    IF Len(row) = Len(a) + 1 THEN row
    ELSE LET i == Len(row)
             substitutionCost == IF a[i] = bj THEN 0 ELSE 1
         IN  fillRow(a, bj, prev,
                     Append(row, Min(Min(row[i] + 1, prev[i + 1] + 1),
                                     prev[i] + substitutionCost)))

RECURSIVE lastRow(_, _, _, _)
lastRow(a, b, j, prev) ==
    IF j > Len(b) THEN prev
    ELSE lastRow(a, b, j + 1, fillRow(a, b[j], prev, <<j>>))

\* mutant: a substitution costs an insertion and a deletion
levenshteinDistance_noSubstitution(a, b) ==
    IF Len(a) = 0 THEN Len(b)
    ELSE IF Len(b) = 0 THEN Len(a)
    ELSE LET D[i \in 0..Len(a), j \in 0..Len(b)] ==
                IF i = 0 THEN j
                ELSE IF j = 0 THEN i
                ELSE IF a[i] = b[j] THEN D[i - 1, j - 1]
                ELSE 1 + Min(D[i - 1, j], D[i, j - 1])
         IN  D[Len(a), Len(b)]

\* levenshteinDistance(a, b)
levenshteinDistance(a, b) ==
    IF Len(a) = 0 THEN Len(b)
    ELSE IF Len(b) = 0 THEN Len(a)
    ELSE lastRow(a, b, 1, [i \in 1..(Len(a) + 1) |-> i - 1])[Len(a) + 1]

\* mutant: 30% of the length of the query, without the floor of 2
maxDistanceOf_noFloor(queryLower) == (Len(queryLower) * 3) \div 10

\* Math.max(2, Math.floor(queryLower.length * 0.3))
maxDistanceOf(queryLower) == Max(2, (Len(queryLower) * 3) \div 10)

\* mutant: the query at the end of the name does not count as a whole word
containsWholeWord_notAtEnd(cityLower, queryLower) ==
    \/ includes(cityLower, <<" ">> \o queryLower \o <<" ">>)
    \/ startsWith(cityLower, queryLower \o <<" ">>)

\* includes(` ${queryLower} `) || startsWith(`${queryLower} `) ||
\* endsWith(` ${queryLower}`)
containsWholeWord(cityLower, queryLower) ==
    \/ includes(cityLower, <<" ">> \o queryLower \o <<" ">>)
    \/ startsWith(cityLower, queryLower \o <<" ">>)
    \/ endsWith(cityLower, <<" ">> \o queryLower)

\* the two loops over words and queryWords: the first pair, in the order of
\* the loops, that matches by prefix (0.5) or by edit distance (0.4), or 0.2
RECURSIVE wordLoop(_, _, _, _)
wordLoop(words, queryWords, w, q) ==
    IF w > Len(words) THEN (2 * ScoreUnit) \div 10
    ELSE IF q > Len(queryWords) THEN wordLoop(words, queryWords, w + 1, 1)
    ELSE IF startsWith(words[w], queryWords[q]) THEN (5 * ScoreUnit) \div 10
    ELSE IF levenshteinDistance(words[w], queryWords[q]) <= maxDistanceOf(queryWords[q])
         THEN (4 * ScoreUnit) \div 10
    ELSE wordLoop(words, queryWords, w, q + 1)

\* 0.4 + (similarity * 0.2), similarity = 1 - distance / the longer length
\* (rounded down to the unit of the model when that length does not divide)
fuzzyScore(d, longer) ==
    (4 * ScoreUnit) \div 10 + ((longer - d) * ((2 * ScoreUnit) \div 10)) \div longer

\* mutant: a name that starts with the query scores 0.9, as in the statement
calculateTextMatchScore_sqlPrefix(cityName, query) ==
    LET cityLower == toLowerCase(cityName)
        queryLower == toLowerCase(query)
        d == levenshteinDistance(cityLower, queryLower)
    IN  IF cityLower = queryLower THEN ScoreUnit
        ELSE IF startsWith(cityLower, queryLower) THEN (9 * ScoreUnit) \div 10
        ELSE IF containsWholeWord(cityLower, queryLower) THEN (8 * ScoreUnit) \div 10
        ELSE IF includes(cityLower, queryLower) THEN (6 * ScoreUnit) \div 10
        ELSE IF d <= maxDistanceOf(queryLower)
             THEN fuzzyScore(d, Max(Len(cityLower), Len(queryLower)))
        ELSE wordLoop(split(cityLower), split(queryLower), 1, 1)

\* calculateTextMatchScore(cityName, query)
calculateTextMatchScore(cityName, query) ==
    LET cityLower == toLowerCase(cityName)
        queryLower == toLowerCase(query)
        d == levenshteinDistance(cityLower, queryLower)
    IN  IF cityLower = queryLower THEN ScoreUnit
        ELSE IF startsWith(cityLower, queryLower) THEN (95 * ScoreUnit) \div 100
        ELSE IF containsWholeWord(cityLower, queryLower) THEN (8 * ScoreUnit) \div 10
        ELSE IF includes(cityLower, queryLower) THEN (6 * ScoreUnit) \div 10
        ELSE IF d <= maxDistanceOf(queryLower)
             THEN fuzzyScore(d, Max(Len(cityLower), Len(queryLower)))
        ELSE wordLoop(split(cityLower), split(queryLower), 1, 1)

\* a call of calculateTextMatchScore
TextScore(r, cityName, query) ==
    /\ reqs[r].pc = "idle"
    /\ reqs' = [reqs EXCEPT ![r] = [pc |-> "scored", handler |-> "text",
                                    cityName |-> cityName, query |-> query,
                                    score |-> calculateTextMatchScore(cityName, query)]]
    /\ UNCHANGED <<now, ipLocationCache, trace, filtersCache, statesCache>>

----------------------------------------------------------------------------
(* The routes /filters and /states/:countryCode, with their caches *)

\* column state_name of a row: NULL exactly when state_code is, and one name
\* per state of a country (the names are in another order than the codes)
state_name(city) ==
    IF city.state_code = NULLTEXT THEN NULLTEXT
    ELSE IF city.country_code = FR
         THEN (IF city.state_code = <<"A">> THEN <<"b">> ELSE <<"a">>)
         ELSE (IF city.state_code = <<"A">> THEN <<"a">> ELSE <<"b">>)

\* the order of the characters in the collation of the database
Alphabet == <<"A", "B", "F", "R", "S", "U", "a", "b", "c">>
CharCode(c) == CHOOSE i \in 1..Len(Alphabet) : Alphabet[i] = c

\* sort key of a text value in ascending order, NULL last (the texts that
\* are ordered here have one or two characters)
textKey(t) ==
    IF t = NULLTEXT THEN <<1, 0, 0>>
    ELSE <<0, CharCode(t[1]), IF Len(t) > 1 THEN CharCode(t[2]) ELSE 0>>

filtersCache_ttl == 24 * 60 * 60 * 1000
statesCache_ttl == 24 * 60 * 60 * 1000

\* { data: null, timestamp: null }: the timestamp is only tested by
\* truthiness, and null is kept as the falsy number 0
emptyFiltersCache == [data |-> null, timestamp |-> 0]

\* SELECT DISTINCT country_code FROM cities WHERE country_code IS NOT NULL
\* ORDER BY country_code ASC
countriesQuery ==
    LET found == {cities[i].country_code : i \in 1..NCities}
        sorted == SortByKey({[key |-> textKey(c), row |-> c] : c \in found})
    IN  [k \in 1..Len(sorted) |-> [country_code |-> sorted[k].row]]

\* SELECT DISTINCT country_code, state_code, state_name FROM cities WHERE
\* state_code IS NOT NULL AND state_name IS NOT NULL ORDER BY country_code,
\* state_name ASC
statesQuery ==
    LET found == {[country_code |-> cities[i].country_code,
                   state_code |-> cities[i].state_code,
                   state_name |-> state_name(cities[i])] :
                    i \in {j \in 1..NCities :
                            /\ cities[j].state_code # NULLTEXT
                            /\ state_name(cities[j]) # NULLTEXT}}
        sorted == SortByKey({[key |-> textKey(x.country_code) \o textKey(x.state_name),
                              row |-> x] : x \in found})
    IN  [k \in 1..Len(sorted) |-> sorted[k].row]

\* SELECT DISTINCT state_code, state_name FROM cities WHERE country_code = $1
\* ORDER BY state_name
statesOfCountryQuery(code) ==
    LET found == {[state_code |-> cities[i].state_code,
                   state_name |-> state_name(cities[i])] :
                    i \in {j \in 1..NCities : cities[j].country_code = code}}
        sorted == SortByKey({[key |-> textKey(x.state_name), row |-> x] : x \in found})
    IN  [k \in 1..Len(sorted) |-> sorted[k].row]

\* statesResult.rows.forEach(...): the states of each country, in row order
statesByCountry(rows) ==
    [c \in {rows[k].country_code : k \in 1..Len(rows)} |->
        LET OfCountry(x) == x.country_code = c
            mine == SelectSeq(rows, OfCountry)
        IN  [k \in 1..Len(mine) |-> [code |-> mine[k].state_code,
                                     name |-> mine[k].state_name]]]

\* the response of /filters after the two statements
filtersResponse(countriesResult, statesResult) ==
    [status |-> 200,
     countries |-> [k \in 1..Len(countriesResult) |->
                        [code |-> countriesResult[k].country_code]],
     states |-> statesByCountry(statesResult),
     debug |-> [countriesCount |-> Len(countriesResult),
                statesCount |-> Len(statesResult),
                cacheHit |-> FALSE]]

filtersError ==
    [status |-> 500, error |-> "An error occurred while getting filter options",
     details |-> "error.message"]

statesError == [status |-> 500, error |-> "Failed to fetch states"]

\* filtersCache.data && filtersCache.timestamp &&
\* (Date.now() - filtersCache.timestamp) < filtersCache.ttl
filtersCacheFresh ==
    /\ filtersCache.data # null
    /\ filtersCache.timestamp # 0
    /\ now - filtersCache.timestamp < filtersCache_ttl

\* cachedStates && Date.now() - cachedStates.timestamp < statesCache.ttl
statesCacheFresh(countryCode) ==
    /\ countryCode \in DOMAIN statesCache
    /\ now - statesCache[countryCode].timestamp < statesCache_ttl

\* a request of /filters or /states: queries counts the statements it has
\* sent to the storage, rows holds the result of the first one; acquired and
\* released count the clients it has taken from the pool with pool.connect
\* and given back with client.release
CacheReq(handler, countryCode) ==
    [pc |-> "start", handler |-> handler, countryCode |-> countryCode,
     queries |-> 0, rows |-> <<>>, response |-> null,
     acquired |-> 0, released |-> 0]

\* mutant: a response served from the cache keeps the flag of the response
\* that was cached
GetFilters_flagNotSet(r) ==
    /\ nextIdle(r)
    /\ LET rec == CacheReq("filters", <<>>) IN
       IF filtersCacheFresh
       THEN reqs' = [reqs EXCEPT ![r] =
                [rec EXCEPT !.pc = "done", !.response = filtersCache.data]]
       ELSE reqs' = [reqs EXCEPT ![r] = [rec EXCEPT !.pc = "countries", !.queries = 1]]
    /\ UNCHANGED <<now, ipLocationCache, trace, filtersCache, statesCache>>

\* router.get('/filters'), up to its first await
GetFilters(r) ==
    /\ nextIdle(r)
    /\ LET rec == CacheReq("filters", <<>>) IN
       IF filtersCacheFresh
       THEN reqs' = [reqs EXCEPT ![r] =
                [rec EXCEPT !.pc = "done",
                            !.response = [filtersCache.data EXCEPT !.debug.cacheHit = TRUE]]]
       ELSE reqs' = [reqs EXCEPT ![r] = [rec EXCEPT !.pc = "countries", !.queries = 1]]
    /\ UNCHANGED <<now, ipLocationCache, trace, filtersCache, statesCache>>

\* mutant: the countries are cached as soon as they are known
CountriesOk_cachesCountries(r) ==
    /\ reqs[r].pc = "countries"
    /\ reqs' = [reqs EXCEPT ![r].pc = "states",
                            ![r].rows = countriesQuery,
                            ![r].queries = 2]
    /\ filtersCache' = [data |-> filtersResponse(countriesQuery, <<>>), timestamp |-> now]
    /\ UNCHANGED <<now, ipLocationCache, trace, statesCache>>

\* countriesQuery resolves: statesQuery is sent
CountriesOk(r) ==
    /\ reqs[r].pc = "countries"
    /\ reqs' = [reqs EXCEPT ![r].pc = "states",
                            ![r].rows = countriesQuery,
                            ![r].queries = 2]
    /\ UNCHANGED <<now, ipLocationCache, trace, filtersCache, statesCache>>

\* statesQuery resolves: the response is built, cached and sent
StatesOk(r) ==
    /\ reqs[r].pc = "states"
    /\ LET resp == filtersResponse(reqs[r].rows, statesQuery) IN
       /\ filtersCache' = [data |-> resp, timestamp |-> now]
       /\ reqs' = [reqs EXCEPT ![r].pc = "done", ![r].response = resp]
    /\ UNCHANGED <<now, ipLocationCache, trace, statesCache>>

\* one of the two statements of /filters rejects: catch, res.status(500)
FiltersFail(r) ==
    /\ reqs[r].pc \in {"countries", "states"}
    /\ reqs' = [reqs EXCEPT ![r].pc = "done", ![r].response = filtersError]
    /\ UNCHANGED <<now, ipLocationCache, trace, filtersCache, statesCache>>

\* router.get('/states/:countryCode'), up to its first await
GetStates(r, countryCode) ==
    /\ nextIdle(r)
    /\ LET rec == CacheReq("states", countryCode) IN
       IF statesCacheFresh(countryCode)
       THEN reqs' = [reqs EXCEPT ![r] =
                [rec EXCEPT !.pc = "done",
                            !.response = [status |-> 200,
                                          data |-> statesCache[countryCode].states,
                                          debug |-> [cacheHit |-> TRUE]]]]
       ELSE reqs' = [reqs EXCEPT ![r] = [rec EXCEPT !.pc = "connect"]]
    /\ UNCHANGED <<now, ipLocationCache, trace, filtersCache, statesCache>>

\* pool.connect resolves: the statement is sent
ConnectOk(r) ==
    /\ reqs[r].pc = "connect"
    /\ reqs' = [reqs EXCEPT ![r].pc = "query", ![r].queries = 1,
                            ![r].acquired = @ + 1]
    /\ UNCHANGED <<now, ipLocationCache, trace, filtersCache, statesCache>>

\* client.query resolves: the states are cached and sent
StatesQueryOk(r) ==
    /\ reqs[r].pc = "query"
    /\ LET result == statesOfCountryQuery(toUpperCase(reqs[r].countryCode))
           states == [k \in 1..Len(result) |-> [code |-> result[k].state_code,
                                                name |-> result[k].state_name]]
       IN  /\ statesCache' =
                [k \in DOMAIN statesCache \cup {reqs[r].countryCode} |->
                    IF k = reqs[r].countryCode
                    THEN [states |-> states, timestamp |-> now]
                    ELSE statesCache[k]]
           /\ reqs' = [reqs EXCEPT
                    ![r].pc = "done",
                    ![r].response = [status |-> 200, data |-> states,
                                     debug |-> [cacheHit |-> FALSE,
                                                statesCount |-> Len(states)]],
                    ![r].released = @ + 1]
    /\ UNCHANGED <<now, ipLocationCache, trace, filtersCache>>

\* mutant: a failed recomputation removes the entry of the country code
StatesFail_evicts(r) ==
    /\ reqs[r].pc \in {"connect", "query"}
    /\ reqs' = [reqs EXCEPT ![r].pc = "done", ![r].response = statesError,
                            ![r].released = IF reqs[r].pc = "query" THEN @ + 1 ELSE @]
    /\ statesCache' = [k \in DOMAIN statesCache \ {reqs[r].countryCode} |-> statesCache[k]]
    /\ UNCHANGED <<now, ipLocationCache, trace, filtersCache>>

\* mutant: the client is released after the answer only, not in a finally
StatesFail_keepsClient(r) ==
    /\ reqs[r].pc \in {"connect", "query"}
    /\ reqs' = [reqs EXCEPT ![r].pc = "done", ![r].response = statesError]
    /\ UNCHANGED <<now, ipLocationCache, trace, filtersCache, statesCache>>

\* pool.connect or client.query rejects: catch, res.status(500); a rejected
\* client.query passes through finally { client.release() } first
StatesFail(r) ==
    /\ reqs[r].pc \in {"connect", "query"}
    /\ reqs' = [reqs EXCEPT ![r].pc = "done", ![r].response = statesError,
                            ![r].released = IF reqs[r].pc = "query" THEN @ + 1 ELSE @]
    /\ UNCHANGED <<now, ipLocationCache, trace, filtersCache, statesCache>>

\* the startup task: pool.connect() has been called when the module is loaded
Startup ==
    [pc |-> "init_connect", handler |-> "startup", acquired |-> 0, released |-> 0]

\* pool.connect of the startup task resolves: CREATE EXTENSION is sent
StartupConnectOk(r) ==
    /\ reqs[r].pc = "init_connect"
    /\ reqs' = [reqs EXCEPT ![r].pc = "init_extension", ![r].acquired = @ + 1]
    /\ UNCHANGED <<now, ipLocationCache, trace, filtersCache, statesCache>>

\* CREATE EXTENSION resolves: the CREATE INDEX statements are sent
StartupExtensionOk(r) ==
    /\ reqs[r].pc = "init_extension"
    /\ reqs' = [reqs EXCEPT ![r].pc = "init_indexes"]
    /\ UNCHANGED <<now, ipLocationCache, trace, filtersCache, statesCache>>

\* the CREATE INDEX statements resolve: finally { client.release() }
StartupIndexesOk(r) ==
    /\ reqs[r].pc = "init_indexes"
    /\ reqs' = [reqs EXCEPT ![r].pc = "done", ![r].released = @ + 1]
    /\ UNCHANGED <<now, ipLocationCache, trace, filtersCache, statesCache>>

\* pool.connect or a statement of the startup task rejects: a rejected
\* statement passes through finally { client.release() }; the error is logged
StartupFail(r) ==
    /\ reqs[r].pc \in {"init_connect", "init_extension", "init_indexes"}
    /\ reqs' = [reqs EXCEPT ![r].pc = "done",
                            ![r].released = IF reqs[r].pc = "init_connect" THEN @ ELSE @ + 1]
    /\ UNCHANGED <<now, ipLocationCache, trace, filtersCache, statesCache>>

----------------------------------------------------------------------------
(* Inputs *)

Ties == {"asc", "desc"}

Input(query, offset, useLocation, country_code, state_code) ==
    [query |-> query, offset |-> offset, useLocation |-> useLocation,
     country_code |-> country_code, state_code |-> state_code]

Queries == {undefined, Str(<<>>), Str(<<"a">>), Str(<<"A", "b">>), Str(<<"b">>)}
Offsets == {undefined, Num(10), Num(20)}

\* every query at every offset; the filters and the location on some of them
SearchInputs ==
    {Input(q, o, "false", undefined, undefined) : q \in Queries, o \in Offsets}
    \cup {Input(q, undefined, "false", c, s) :
            q \in {undefined, Str(<<"a">>)},
            c \in {undefined, Str(<<"f", "r">>)},
            s \in {undefined, Str(<<"a">>)}}
    \cup {Input(q, o, "true", undefined, undefined) :
            q \in {undefined, Str(<<"a">>)}, o \in {undefined, Num(10)}}
    \cup {Input(Str(<<"c">>), undefined, u, undefined, undefined) : u \in {"true", "false"}}

SearchIps == {<<"127.0.0.1">>, <<V6Prefix, "8.8.8.8">>}

GeoInputs == {Input(Str(<<"b", "b">>), undefined, "true", undefined, undefined)}

GeoIps == {<<"8.8.8.8">>, <<"192.168.", "1.5">>}

\* the answers of the upstream service the specifications draw from
Bodies ==
    {b \in CanonicalBodies :
        b.kind = "object" => \/ b.hasLat /\ b.hasLon
                             \/ ~b.hasLat /\ ~b.hasLon
                             \/ b.hasLat /\ b.lat # 0 /\ ~b.hasLon}

----------------------------------------------------------------------------
(* Specifications *)

\* the search handler
Init ==
    /\ now = 2 * TickStep
    /\ ipLocationCache = <<>>
    /\ reqs = [r \in 1..MaxSearch |-> Idle]
    /\ trace = <<>>
    /\ filtersCache = emptyFiltersCache
    /\ statesCache = <<>>

Next ==
    \/ \E r \in DOMAIN reqs, rq \in SearchInputs, ip \in SearchIps : GetCities(r, rq, ip)
    \/ \E r \in DOMAIN reqs, body \in Bodies : UpstreamEnd(r, body)
    \/ \E r \in DOMAIN reqs : UpstreamError(r)
    \/ \E r \in DOMAIN reqs, tie \in Ties : QueryOk(r, tie)
    \/ \E r \in DOMAIN reqs : QueryFail(r)

Spec == Init /\ [][Next]_vars

\* the geolocation resolver under concurrent requests and a running clock
InitGeo ==
    /\ now = 2 * TickStep
    /\ ipLocationCache = <<>>
    /\ reqs = [r \in 1..MaxReq |-> Idle]
    /\ trace = <<>>
    /\ filtersCache = emptyFiltersCache
    /\ statesCache = <<>>

NextGeo ==
    \/ \E r \in DOMAIN reqs, rq \in GeoInputs, ip \in GeoIps : GetCities(r, rq, ip)
    \/ \E r \in DOMAIN reqs, body \in Bodies : UpstreamEnd(r, body)
    \/ \E r \in DOMAIN reqs : UpstreamError(r)
    \/ Tick

SpecGeo == InitGeo /\ [][NextGeo]_vars

\* the pages of one search: the same queries at offsets 0 and 10, without a
\* location or with the location of a loopback client, and one request whose
\* useLocation is neither 'true' nor 'false'
PageInputs ==
    {Input(q, o, u, undefined, undefined) :
        q \in {Str(<<"a">>), Str(<<"b">>)}, o \in {undefined, Num(10)},
        u \in {"true", "false"}}
    \cup {Input(Str(<<"b">>), undefined, "1", undefined, undefined)}

PageIps == {<<"127.0.0.1">>}

InitPages ==
    /\ now = 2 * TickStep
    /\ ipLocationCache = <<>>
    /\ reqs = [r \in 1..MaxPages |-> Idle]
    /\ trace = <<>>
    /\ filtersCache = emptyFiltersCache
    /\ statesCache = <<>>

NextPages ==
    \/ \E r \in DOMAIN reqs, rq \in PageInputs, ip \in PageIps : GetCities(r, rq, ip)
    \/ \E r \in DOMAIN reqs, tie \in Ties : QueryOk(r, tie)
    \/ \E r \in DOMAIN reqs : QueryFail(r)

SpecPages == InitPages /\ [][NextPages]_vars

\* the requests of the first and second iterations: query, page, limit
InputsV1 ==
    [query : {undefined, Str(<<"a", "b">>), Str(<<"b", " ">>)},
     page : {undefined, Num(2)},
     limit : {undefined, Num(5)}]

\* the upstream answers of the three iterations: a location and a body that
\* does not parse
HandlerBodies ==
    {b \in Bodies :
        \/ b.kind = "malformed"
        \/ b.kind = "object" /\ hasLocationData(b)}

\* the three iterations of the route
InitHandlers ==
    /\ now = 2 * TickStep
    /\ ipLocationCache = <<>>
    /\ reqs = [r \in 1..MaxSearch |-> Idle]
    /\ trace = <<>>
    /\ filtersCache = emptyFiltersCache
    /\ statesCache = <<>>

NextHandlers ==
    \/ \E r \in DOMAIN reqs, rq \in PageInputs, ip \in SearchIps : GetCities(r, rq, ip)
    \/ \E r \in DOMAIN reqs, body \in HandlerBodies : UpstreamEnd(r, body)
    \/ \E r \in DOMAIN reqs : UpstreamError(r)
    \/ \E r \in DOMAIN reqs, tie \in Ties : QueryOk(r, tie)
    \/ \E r \in DOMAIN reqs, rq \in InputsV1, ip \in SearchIps : GetCitiesV1(r, rq, ip)
    \/ \E r \in DOMAIN reqs, body \in HandlerBodies : UpstreamEndV1(r, body)
    \/ \E r \in DOMAIN reqs : UpstreamErrorV1(r)
    \/ \E r \in DOMAIN reqs, tie \in Ties : QueryOkV1(r, tie)
    \/ \E r \in DOMAIN reqs, rq \in InputsV1, ip \in SearchIps : GetCitiesV2(r, rq, ip)
    \/ \E r \in DOMAIN reqs, tie \in Ties : QueryOkV2(r, tie)
    \/ \E r \in DOMAIN reqs : QueryFail(r)

SpecHandlers == InitHandlers /\ [][NextHandlers]_vars

\* the routes /filters and /states under concurrent requests, storage
\* failures and a running clock
CountryCodes == {<<"F", "R">>, <<"f", "r">>}

InitCaches ==
    /\ now = 2 * TickStep
    /\ ipLocationCache = <<>>
    /\ reqs = [r \in 1..MaxCacheReq |-> Idle]
    /\ trace = <<>>
    /\ filtersCache = emptyFiltersCache
    /\ statesCache = <<>>

NextCaches ==
    \/ \E r \in DOMAIN reqs : GetFilters(r)
    \/ \E r \in DOMAIN reqs : CountriesOk(r)
    \/ \E r \in DOMAIN reqs : StatesOk(r)
    \/ \E r \in DOMAIN reqs : FiltersFail(r)
    \/ \E r \in DOMAIN reqs, code \in CountryCodes : GetStates(r, code)
    \/ \E r \in DOMAIN reqs : ConnectOk(r)
    \/ \E r \in DOMAIN reqs : StatesQueryOk(r)
    \/ \E r \in DOMAIN reqs : StatesFail(r)
    \/ Tick

SpecCaches == InitCaches /\ [][NextCaches]_vars

\* requests in flight at the same time for one key of each cache: one ip,
\* the filter set, one country code
FlightInputs == {Input(Str(<<"c">>), undefined, "true", undefined, undefined)}
FlightIps == {<<"8.8.8.8">>}
FlightBodies ==
    {[kind |-> "object", hasLat |-> TRUE, lat |-> 488566, hasLon |-> TRUE, lon |-> 23522]}
FlightCodes == {<<"F", "R">>}

InitFlight ==
    /\ now = 2 * TickStep
    /\ ipLocationCache = <<>>
    /\ reqs = [r \in 1..MaxFlight |-> Idle]
    /\ trace = <<>>
    /\ filtersCache = emptyFiltersCache
    /\ statesCache = <<>>

NextFlight ==
    \/ \E r \in DOMAIN reqs, rq \in FlightInputs, ip \in FlightIps : GetCities(r, rq, ip)
    \/ \E r \in DOMAIN reqs, body \in FlightBodies : UpstreamEnd(r, body)
    \/ \E r \in DOMAIN reqs : UpstreamError(r)
    \/ \E r \in DOMAIN reqs : GetFilters(r)
    \/ \E r \in DOMAIN reqs : CountriesOk(r)
    \/ \E r \in DOMAIN reqs : StatesOk(r)
    \/ \E r \in DOMAIN reqs, code \in FlightCodes : GetStates(r, code)
    \/ \E r \in DOMAIN reqs : ConnectOk(r)
    \/ \E r \in DOMAIN reqs : StatesQueryOk(r)

SpecFlight == InitFlight /\ [][NextFlight]_vars

\* the resolver called from loopback and private addresses, with and without
\* the IPv6 prefix, and from one public address, with and without it
LocalIps ==
    {<<"127.0.0.1">>, <<V6Prefix, "127.0.0.1">>, <<"172.", "16.0.1">>,
     <<"192.168.", "1.5">>, <<V6Prefix, "192.168.", "1.5">>,
     <<"8.8.8.8">>, <<V6Prefix, "8.8.8.8">>}

InitLocal ==
    /\ now = 2 * TickStep
    /\ ipLocationCache = <<>>
    /\ reqs = [r \in 1..MaxLocal |-> Idle]
    /\ trace = <<>>
    /\ filtersCache = emptyFiltersCache
    /\ statesCache = <<>>

NextLocal ==
    \/ \E r \in DOMAIN reqs, rq \in GeoInputs, ip \in LocalIps : GetCities(r, rq, ip)
    \/ \E r \in DOMAIN reqs, body \in FlightBodies : UpstreamEnd(r, body)
    \/ \E r \in DOMAIN reqs : UpstreamError(r)
    \/ Tick

SpecLocal == InitLocal /\ [][NextLocal]_vars

\* the three caches together: the resolver, /filters and /states under
\* upstream and storage failures and a running clock
InitAll ==
    /\ now = 2 * TickStep
    /\ ipLocationCache = <<>>
    /\ reqs = [r \in 1..MaxAll |-> Idle]
    /\ trace = <<>>
    /\ filtersCache = emptyFiltersCache
    /\ statesCache = <<>>

NextAll ==
    \/ \E r \in DOMAIN reqs, rq \in FlightInputs, ip \in GeoIps : GetCities(r, rq, ip)
    \/ \E r \in DOMAIN reqs, body \in FlightBodies : UpstreamEnd(r, body)
    \/ \E r \in DOMAIN reqs : UpstreamError(r)
    \/ \E r \in DOMAIN reqs : GetFilters(r)
    \/ \E r \in DOMAIN reqs : CountriesOk(r)
    \/ \E r \in DOMAIN reqs : StatesOk(r)
    \/ \E r \in DOMAIN reqs : FiltersFail(r)
    \/ \E r \in DOMAIN reqs, code \in CountryCodes : GetStates(r, code)
    \/ \E r \in DOMAIN reqs : ConnectOk(r)
    \/ \E r \in DOMAIN reqs : StatesQueryOk(r)
    \/ \E r \in DOMAIN reqs : StatesFail(r)
    \/ Tick

SpecAll == InitAll /\ [][NextAll]_vars

\* the clients of the pool: the startup task and the requests of /states
InitPool ==
    /\ now = 2 * TickStep
    /\ ipLocationCache = <<>>
    /\ reqs = <<Startup>> \o [r \in 1..MaxPool |-> Idle]
    /\ trace = <<>>
    /\ filtersCache = emptyFiltersCache
    /\ statesCache = <<>>

NextPool ==
    \/ \E r \in DOMAIN reqs : StartupConnectOk(r)
    \/ \E r \in DOMAIN reqs : StartupExtensionOk(r)
    \/ \E r \in DOMAIN reqs : StartupIndexesOk(r)
    \/ \E r \in DOMAIN reqs : StartupFail(r)
    \/ \E r \in DOMAIN reqs, code \in CountryCodes : GetStates(r, code)
    \/ \E r \in DOMAIN reqs : ConnectOk(r)
    \/ \E r \in DOMAIN reqs : StatesQueryOk(r)
    \/ \E r \in DOMAIN reqs : StatesFail(r)
    \/ Tick

SpecPool == InitPool /\ [][NextPool]_vars

\* the scorer on every name and query of up to MaxLen letters and spaces,
\* and on some more: capitals, a sharp s, two words, ten letters
TextChars == {"a", "b", " "}

TextStrings ==
    UNION {[1..k -> TextChars] : k \in 0..MaxLen}
    \cup {<<"A">>, <<"A", "b">>, <<"a", "B", "a">>, <<"b", " ", "A">>,
          <<"ß">>, <<"s", "s">>,
          <<"a", "a", "a", " ", "b">>, <<"b", "b", "b", " ">>,
          <<"a", "a", "a", "a", "a", "a", "a", "a", "a", "a">>,
          <<"a", "a", "a", "a", "a", "a", "a", "b", "b", "b">>}

InitText ==
    /\ now = 2 * TickStep
    /\ ipLocationCache = <<>>
    /\ reqs = <<Idle>>
    /\ trace = <<>>
    /\ filtersCache = emptyFiltersCache
    /\ statesCache = <<>>

NextText ==
    \E r \in DOMAIN reqs, cityName \in TextStrings, query \in TextStrings :
        TextScore(r, cityName, query)

SpecText == InitText /\ [][NextText]_vars

\* the search handler when the storage always answers in the end; nothing
\* makes the upstream service answer, and the code sets no timeout on its
\* call
SpecLive ==
    /\ Init
    /\ [][Next]_vars
    /\ \A r \in 1..MaxSearch :
        WF_vars(QueryFail(r) \/ \E tie \in Ties : QueryOk(r, tie))

----------------------------------------------------------------------------
(* Reading the history of the resolver *)

StartKinds == {"hit", "local", "lookup"}                         \* a call
WriteKinds == {"local", "ok", "missing", "malformed", "neterror"} \* a cache write
FailKinds == {"missing", "malformed", "neterror"}                \* a fallback
ReturnKinds == {"hit"} \cup WriteKinds                           \* a result

IsStart(i) == trace[i].kind \in StartKinds
IsWrite(i) == trace[i].kind \in WriteKinds

\* the last cache write of the key of event j before event j, or 0
LastWriteBefore(j) ==
    LET S == {i \in 1..(j - 1) : IsWrite(i) /\ trace[i].key = trace[j].key}
    IN  IF S = {} THEN 0 ELSE CHOOSE i \in S : \A k \in S : k <= i

\* no cache write of the key of event i strictly between events i and j
NoWriteBetween(i, j) ==
    \A k \in (i + 1)..(j - 1) : ~(IsWrite(k) /\ trace[k].key = trace[i].key)

IsLocation(l) ==
    /\ DOMAIN l = {"lat", "lon"}
    /\ l.lat \in Int /\ l.lon \in Int

----------------------------------------------------------------------------
(* C1 - C5: the geolocation resolver *)

\* C1: a call of getLocationFromIP is served from the cache only when the
\* entry of its ip is younger than CACHE_TTL, and then with the cached
\* location; when the entry has reached CACHE_TTL the call is not served from
\* the cache (it takes the local or the upstream path, which overwrite it).
C1_CachedOnlyWhenFresh ==
    \A j \in 1..Len(trace) :
        IsStart(j) =>
            LET w == LastWriteBefore(j) IN
            /\ trace[j].kind = "hit" =>
                    /\ w # 0
                    /\ trace[j].t - trace[w].t < CACHE_TTL
                    /\ trace[j].loc = trace[w].loc
            /\ (w # 0 /\ trace[j].t - trace[w].t >= CACHE_TTL) =>
                    trace[j].kind # "hit"

\* an entry exactly CACHE_TTL old was found and not served
C1_Witness ==
    \E j \in 1..Len(trace) :
        /\ trace[j].kind = "lookup"
        /\ LastWriteBefore(j) # 0
        /\ trace[j].t - trace[LastWriteBefore(j)].t = CACHE_TTL

\* C2 (as stated): two resolutions of one ip that start less than CACHE_TTL
\* apart return the same location, and at most one of them calls upstream.
C2_SameLocationOneLookup ==
    \A i, j \in 1..Len(trace) :
        (/\ i < j /\ IsStart(i) /\ IsStart(j)
         /\ trace[i].key = trace[j].key
         /\ trace[j].t - trace[i].t < CACHE_TTL)
        => /\ ~(trace[i].kind = "lookup" /\ trace[j].kind = "lookup")
           /\ (reqs[trace[i].r].pc = "db" /\ reqs[trace[j].r].pc = "db")
                => reqs[trace[i].r].userLocation = reqs[trace[j].r].userLocation

\* C2 (amended): a resolution that starts after a resolution of the same ip
\* has written the cache, less than CACHE_TTL after that write and with no
\* other write of that ip in between, is served without an upstream call and
\* returns the location that was written.
C2_SecondServedFromCache ==
    \A i, j \in 1..Len(trace) :
        (/\ i < j /\ IsWrite(i) /\ IsStart(j)
         /\ trace[i].key = trace[j].key
         /\ NoWriteBetween(i, j)
         /\ trace[j].t - trace[i].t < CACHE_TTL)
        => /\ trace[j].kind = "hit"
           /\ trace[j].loc = trace[i].loc
           /\ reqs[trace[j].r].userLocation = reqs[trace[i].r].userLocation

\* an upstream location was cached and a later call, half a TTL later, got it
C2_Witness ==
    \E i, j \in 1..Len(trace) :
        /\ i < j /\ trace[i].kind = "ok" /\ trace[j].kind = "hit"
        /\ trace[i].key = trace[j].key
        /\ trace[j].t > trace[i].t
        /\ trace[j].loc # defaultLocation

\* C3: every call of getLocationFromIP that has completed yielded a
\* location: the one of the upstream answer or the default one, whatever the
\* upstream outcome.
C3_ResolveNeverFails ==
    \A r \in DOMAIN reqs :
        (reqs[r].pc \in {"db", "done"} /\ reqs[r].rq.useLocation = "true") =>
            /\ IsLocation(reqs[r].userLocation)
            /\ \/ reqs[r].userLocation = defaultLocation
               \/ \E i \in 1..Len(trace) :
                    /\ trace[i].kind = "ok"
                    /\ trace[i].key = reqs[r].key
                    /\ reqs[r].userLocation =
                          [lat |-> trace[i].body.lat, lon |-> trace[i].body.lon]

\* calls have completed through a network error and through a malformed body
C3_Witness ==
    /\ \E i \in 1..Len(trace) :
        trace[i].kind = "neterror" /\ reqs[trace[i].r].userLocation = defaultLocation
    /\ \E i \in 1..Len(trace) :
        trace[i].kind = "malformed" /\ reqs[trace[i].r].userLocation = defaultLocation

\* C4: after a call has completed through a failure path the cache holds the
\* default location for its ip (until a later completion overwrites it), and
\* no call for that ip started less than CACHE_TTL later goes upstream.
C4_FallbackIsCached ==
    \A i \in 1..Len(trace) :
        trace[i].kind \in FailKinds =>
            /\ (\A k \in (i + 1)..Len(trace) :
                    ~(IsWrite(k) /\ trace[k].key = trace[i].key))
                => /\ cacheHas(trace[i].key)
                   /\ ipLocationCache[trace[i].key] =
                        [location |-> defaultLocation, timestamp |-> trace[i].t]
            /\ \A j \in (i + 1)..Len(trace) :
                    (/\ IsStart(j) /\ trace[j].key = trace[i].key
                     /\ trace[j].t - trace[i].t < CACHE_TTL)
                    => trace[j].kind # "lookup"

\* a call failed and a later call for the same ip was served from the cache
C4_Witness ==
    \E i, j \in 1..Len(trace) :
        /\ i < j /\ trace[i].kind \in FailKinds
        /\ trace[j].kind = "hit" /\ trace[j].key = trace[i].key
        /\ trace[j].t > trace[i].t
        /\ trace[j].loc = defaultLocation

\* C5 (as stated): an upstream answer that parses and carries both a latitude
\* and a longitude, whatever their values, is cached and returned as it is.
C5_UpstreamLocationReturned ==
    \A i \in 1..Len(trace) :
        (/\ trace[i].body.kind = "object"
         /\ trace[i].body.hasLat /\ trace[i].body.hasLon)
        => trace[i].loc = [lat |-> trace[i].body.lat, lon |-> trace[i].body.lon]

----------------------------------------------------------------------------
(* C6 - C10: the search handler *)

Done(r) == reqs[r].pc = "done"
Ok(r) == reqs[r].pc = "done" /\ reqs[r].response.status = 200

\* the final scores of ALL the candidates of a request (the rows that match
\* its query and filters), in descending order
rankedScores(rq, userLocation) ==
    LET sq == buildQuery(rq, userLocation)
        all == [sq EXCEPT !.queryParams[sq.paramIndex + 2] = Num(NCities),
                          !.queryParams[sq.paramIndex + 3] = Num(0)]
        ranked == sortByScore(scoredResults(searchRows(all, "asc")))
    IN  [k \in 1..Len(ranked) |-> ranked[k].score]

scoresOf(data) == [k \in 1..Len(data) |-> data[k].score]
idsOf(data) == {data[k].geoname_id : k \in 1..Len(data)}

\* C6 (as stated): a search request whose query is missing or empty is
\* answered with the 400 error, whatever its other parameters.
C6_QueryRequired ==
    \A r \in DOMAIN reqs :
        (Done(r) /\ ~truthy(reqs[r].rq.query)) => reqs[r].response.status = 400

\* C7 (as stated): the returned page is the slice offset..offset+limit-1 of
\* all the candidates in descending order of final score.
C7_PageOfGlobalRanking ==
    \A r \in DOMAIN reqs :
        Ok(r) =>
            LET ranked == rankedScores(reqs[r].rq, reqs[r].userLocation)
                offset == parseInt(reqs[r].rq.offset)
            IN  scoresOf(reqs[r].response.data) =
                    SubSeq(ranked, offset + 1, Min(offset + limit, Len(ranked)))

\* C8 (as stated): the pages at offsets 0 and 10 of one search, concatenated,
\* are the first 20 candidates of the ranking: same scores in the same order,
\* no candidate twice.
C8_PagesConcatenate ==
    \A r1, r2 \in DOMAIN reqs :
        (/\ Ok(r1) /\ Ok(r2)
         /\ reqs[r1].rq.offset = undefined
         /\ reqs[r2].rq = [reqs[r1].rq EXCEPT !.offset = Num(10)]
         /\ reqs[r1].userLocation = reqs[r2].userLocation)
        => LET both == reqs[r1].response.data \o reqs[r2].response.data
               ranked == rankedScores(reqs[r1].rq, reqs[r1].userLocation)
           IN  /\ scoresOf(both) = SubSeq(ranked, 1, Min(2 * limit, Len(ranked)))
               /\ Cardinality(idsOf(both)) = Len(both)

\* C9 (as stated): pagination.total is the number of cities that match the
\* query and the filters, whatever the offset.
C9_TotalIsMatchCount ==
    \A r \in DOMAIN reqs :
        Ok(r) =>
            reqs[r].response.pagination.total =
                Cardinality({i \in 1..NCities :
                    whereClause(cities[i], buildQuery(reqs[r].rq, reqs[r].userLocation))})

\* the candidate a result was computed from
cityOf(x) == CHOOSE i \in 1..NCities : cities[i].geoname_id = x.geoname_id

\* the three component scores of a candidate, as the handler of request r
\* computes them
populationScoreOf(r, city) ==
    CASE reqs[r].handler = "main" -> normalizePopulation(city.population, 10000000)
      [] reqs[r].handler = "v1" -> normalizePopulationV1(city.population, maxPopulationOf)
      [] reqs[r].handler = "v2" -> normalizePopulation(city.population, maxPopulationOf)

textScoreOf(r, city) ==
    CASE reqs[r].handler = "main" ->
            match_score(city, buildQuery(reqs[r].rq, reqs[r].userLocation))
      [] reqs[r].handler = "v1" ->
            calculateTextMatchScoreV1(city.city_name, reqs[r].rq.query.v)
      [] reqs[r].handler = "v2" -> match_scoreV2(city, reqs[r].rq.query.v)

distanceScoreFor(r, city) ==
    CASE reqs[r].handler = "main" ->
            distanceScoreOf(distance(city, buildQuery(reqs[r].rq, reqs[r].userLocation)))
      [] reqs[r].handler \in {"v1", "v2"} ->
            IF reqs[r].userLocation # null
            THEN distanceScoreKm(calculateDistance(reqs[r].userLocation.lat,
                                                   reqs[r].userLocation.lon,
                                                   city.latitude, city.longitude))
            ELSE ScoreUnit \div 2

\* wp * populationScore + wt * textScore + wd * distanceScore, in tenths
weighted(r, x, wp, wt, wd) ==
    LET city == cities[cityOf(x)]
        p == populationScoreOf(r, city)
    IN  IF p = NegInfinity THEN NegInfinity
        ELSE wp * p + wt * textScoreOf(r, city) + wd * distanceScoreFor(r, city)

\* C10 (as stated): in every search handler, the score of every returned
\* result is 0.2 * populationScore + 0.7 * textScore + 0.1 * distanceScore of
\* its candidate.
C10_FixedWeightsEveryHandler ==
    \A r \in DOMAIN reqs :
        Ok(r) =>
            \A k \in 1..Len(reqs[r].response.data) :
                LET x == reqs[r].response.data[k]
                IN  x.score = weighted(r, x, 2, 7, 1)

\* C10 (amended): the score of every result of the current handler and of the
\* trigram iteration is 0.2 * populationScore + 0.7 * textScore + 0.1 *
\* distanceScore of its candidate; the first iteration weighs the same three
\* components 0.3, 0.5 and 0.2.
C10_WeightsOfEachHandler ==
    \A r \in DOMAIN reqs :
        Ok(r) =>
            \A k \in 1..Len(reqs[r].response.data) :
                LET x == reqs[r].response.data[k]
                IN  IF reqs[r].handler = "v1"
                    THEN x.score = weighted(r, x, 3, 5, 2)
                    ELSE x.score = weighted(r, x, 2, 7, 1)

\* the current handler returned, to a located user, a result whose three
\* component scores are all different and none of them zero
C10_Witness ==
    \E r \in DOMAIN reqs :
        /\ Ok(r)
        /\ reqs[r].handler = "main"
        /\ reqs[r].userLocation # null
        /\ \E k \in 1..Len(reqs[r].response.data) :
            LET city == cities[cityOf(reqs[r].response.data[k])]
                p == populationScoreOf(r, city)
                t == textScoreOf(r, city)
                d == distanceScoreFor(r, city)
            IN  /\ p > 0 /\ t > 0 /\ d > 0
                /\ p # t /\ t # d /\ p # d
                /\ d # ScoreUnit \div 2

----------------------------------------------------------------------------
(* C11 - C13: ordering and component scores of the search handler *)

\* the distance of the candidate of a result of request r, as the statement
\* computes it (NULLINT without a location)
distanceOf(r, x) ==
    distance(cities[cityOf(x)], buildQuery(reqs[r].rq, reqs[r].userLocation))

\* C11 (as stated): a page is in descending order of score; of two results
\* with the same score the one with the larger population comes first, and
\* of two with the same score and population the one with the smaller
\* distance, an unknown distance last.
C11_TieBreakPopulationDistance ==
    \A r \in DOMAIN reqs :
        (Ok(r) /\ reqs[r].handler = "main") =>
            LET data == reqs[r].response.data IN
            \A i, j \in 1..Len(data) :
                i < j =>
                    /\ data[i].score >= data[j].score
                    /\ (/\ data[i].score = data[j].score
                        /\ data[i].population # NULLINT
                        /\ data[j].population # NULLINT)
                        => data[i].population >= data[j].population
                    /\ (/\ data[i].score = data[j].score
                        /\ data[i].population = data[j].population)
                        => \/ distanceOf(r, data[j]) = NULLINT
                           \/ /\ distanceOf(r, data[i]) # NULLINT
                              /\ distanceOf(r, data[i]) <= distanceOf(r, data[j])

\* the distance component of the score of result x of request r: what is
\* left of the score without its population and text components
distanceScoreIn(r, x) ==
    LET city == cities[cityOf(x)]
    IN  x.score - 2 * populationScoreOf(r, city) - 7 * textScoreOf(r, city)

\* C12 (as stated): the distance score of a candidate is the neutral 0.5
\* when the request has no location, and max(0, 1 - distanceKm / 1000) of the
\* distance in kilometres between the location and the candidate when it has
\* one (1.0 at 0 km).
C12_DistanceScoreInKm ==
    \A r \in DOMAIN reqs :
        (Ok(r) /\ reqs[r].handler = "main") =>
            \A k \in 1..Len(reqs[r].response.data) :
                LET x == reqs[r].response.data[k]
                    city == cities[cityOf(x)]
                    loc == reqs[r].userLocation
                IN  distanceScoreIn(r, x) =
                        IF loc = null THEN ScoreUnit \div 2
                        ELSE distanceScoreKm(calculateDistance(loc.lat, loc.lon,
                                                city.latitude, city.longitude))

\* the population component of the score of result x of request r
populationScoreIn(r, x) ==
    LET city == cities[cityOf(x)]
    IN  (x.score - 7 * textScoreOf(r, city) - distanceScoreFor(r, city)) \div 2

\* C13 (as stated): the population score of every scored candidate is 0 when
\* its population is null or 0 and lies in [0, 1] otherwise, with the maximum
\* population the handler supplies; its text and distance scores lie in
\* [0, 1] as well.
C13_ComponentsInUnitRange ==
    \A r \in DOMAIN reqs :
        (Ok(r) /\ reqs[r].handler = "main") =>
            \A k \in 1..Len(reqs[r].response.data) :
                LET x == reqs[r].response.data[k]
                    city == cities[cityOf(x)]
                IN  /\ x.population \in {NULLINT, 0} => populationScoreIn(r, x) = 0
                    /\ populationScoreIn(r, x) >= 0
                    /\ populationScoreIn(r, x) <= ScoreUnit
                    /\ textScoreOf(r, city) >= 0 /\ textScoreOf(r, city) <= ScoreUnit
                    /\ distanceScoreIn(r, x) >= 0 /\ distanceScoreIn(r, x) <= ScoreUnit

----------------------------------------------------------------------------
(* C14 - C17: the caches *)

Served(r) ==
    /\ reqs[r].pc = "done"
    /\ reqs[r].handler \in {"filters", "states"}
    /\ reqs[r].response.status = 200

\* what the storage answers for the states of a country code
statesOfCountry(countryCode) ==
    LET result == statesOfCountryQuery(toUpperCase(countryCode))
    IN  [k \in 1..Len(result) |-> [code |-> result[k].state_code,
                                   name |-> result[k].state_name]]

C17_CacheWrittenOnlyWhenComplete ==
    [][/\ filtersCache' # filtersCache =>
            \E r \in DOMAIN reqs :
                /\ reqs[r].pc = "states" /\ reqs'[r].pc = "done"
                /\ reqs'[r].response.status = 200
                /\ filtersCache' = [data |-> reqs'[r].response, timestamp |-> now]
                /\ filtersCache'.data = filtersResponse(countriesQuery, statesQuery)
       /\ statesCache' # statesCache =>
            \E r \in DOMAIN reqs :
                /\ reqs[r].pc = "query" /\ reqs'[r].pc = "done"
                /\ reqs'[r].response.status = 200
                /\ DOMAIN statesCache' = DOMAIN statesCache \cup {reqs[r].countryCode}
                /\ \A k \in DOMAIN statesCache :
                        k # reqs[r].countryCode => statesCache'[k] = statesCache[k]
                /\ statesCache'[reqs[r].countryCode] =
                        [states |-> statesOfCountry(reqs[r].countryCode),
                         timestamp |-> now]
       /\ \A r \in DOMAIN reqs :
            (reqs[r].pc # "done" /\ reqs'[r].pc = "done"
             /\ reqs'[r].response.status = 500)
            => /\ filtersCache' = filtersCache
               /\ statesCache' = statesCache]_vars

\* /filters failed at its second statement after its entry had expired, and
\* the cache still holds the entry and the timestamp of the earlier request
C17_Witness ==
    \E r1, r2 \in DOMAIN reqs :
        /\ Served(r1) /\ reqs[r1].handler = "filters" /\ reqs[r1].queries = 2
        /\ reqs[r2].pc = "done" /\ reqs[r2].handler = "filters"
        /\ reqs[r2].response.status = 500 /\ reqs[r2].queries = 2
        /\ filtersCache.data = reqs[r1].response
        /\ now - filtersCache.timestamp >= filtersCache_ttl

\* the upstream calls for an ip that were sent before the first cache write
\* for that ip
ipWork(key) ==
    Cardinality({i \in 1..Len(trace) :
        /\ trace[i].kind = "lookup" /\ trace[i].key = key
        /\ LastWriteBefore(i) = 0})

\* the upstream calls request r has sent
lookupsOf(r) ==
    Cardinality({i \in 1..Len(trace) : trace[i].kind = "lookup" /\ trace[i].r = r})

\* request r of /filters or /states found no fresh entry and went to the
\* storage
Missed(r, handler, countryCode) ==
    /\ reqs[r].pc # "idle"
    /\ reqs[r].handler = handler
    /\ reqs[r].countryCode = countryCode
    /\ \/ reqs[r].pc \in {"countries", "states", "connect", "query"}
       \/ reqs[r].pc = "done" /\ reqs[r].queries > 0

\* the computations of the filter set, or of the states of a country code,
\* that were started (no entry expires in SpecFlight: a computation is
\* started only while the cache has no entry for the key)
storageWork(handler, countryCode) ==
    Cardinality({r \in DOMAIN reqs : Missed(r, handler, countryCode)})

\* the requests for a key that have arrived
requestsFor(handler, key) ==
    Cardinality({r \in DOMAIN reqs :
        /\ reqs[r].pc # "idle"
        /\ reqs[r].handler = handler
        /\ IF handler = "main" THEN reqs[r].key = key ELSE reqs[r].countryCode = key})

\* C15 (as stated): whatever the number of requests in flight for one
\* uncached key, the upstream or storage work for that key is done at most
\* twice before the cache is populated.
C15_WorkAtMostTwice ==
    /\ \A i \in 1..Len(trace) : ipWork(trace[i].key) <= 2
    /\ storageWork("filters", <<>>) <= 2
    /\ \A code \in FlightCodes : storageWork("states", code) <= 2

\* C15 (amended): every request in flight for an uncached key does the work
\* for that key at most once (one upstream call, one run of the two filter
\* statements, one states statement), so that the work is done at most as
\* many times as there are requests for the key.
C15_WorkAtMostOncePerRequest ==
    /\ \A r \in DOMAIN reqs :
        reqs[r].pc # "idle" =>
            CASE reqs[r].handler = "main" -> lookupsOf(r) <= 1
              [] reqs[r].handler = "filters" -> reqs[r].queries <= 2
              [] reqs[r].handler = "states" -> reqs[r].queries <= 1
    /\ \A i \in 1..Len(trace) :
        ipWork(trace[i].key) <= requestsFor("main", trace[i].key)
    /\ storageWork("filters", <<>>) <= requestsFor("filters", <<>>)
    /\ \A code \in FlightCodes :
        storageWork("states", code) <= requestsFor("states", code)

\* three requests for one uncached ip have each called the upstream service
C15_Witness ==
    \E i \in 1..Len(trace) :
        /\ ipWork(trace[i].key) >= 3
        /\ Cardinality({r \in DOMAIN reqs :
                reqs[r].pc # "idle" /\ reqs[r].key = trace[i].key /\ lookupsOf(r) = 1}) >= 3

\* C16 (as stated): the resolutions of one ip that were in flight together
\* while the ip was not cached return, once they have all completed, the same
\* location, and the cache holds that location for the ip.
C16_ConcurrentResolutionsAgree ==
    \A i, j \in 1..Len(trace) :
        (/\ i < j
         /\ trace[i].kind = "lookup" /\ trace[j].kind = "lookup"
         /\ trace[i].key = trace[j].key
         /\ LastWriteBefore(j) = 0
         /\ reqs[trace[i].r].pc = "db" /\ reqs[trace[j].r].pc = "db"
         /\ \A k \in 1..Len(trace) :
                (trace[k].kind = "lookup" /\ trace[k].key = trace[i].key)
                    => reqs[trace[k].r].pc = "db")
        => /\ reqs[trace[i].r].userLocation = reqs[trace[j].r].userLocation
           /\ ipLocationCache[trace[i].key].location = reqs[trace[i].r].userLocation

\* the event that completed the upstream call of request r
Completion(r) ==
    CHOOSE c \in 1..Len(trace) :
        trace[c].r = r /\ trace[c].kind \in ({"ok"} \cup FailKinds)

\* the location that the outcome of an upstream call stands for
outcomeLocation(e) ==
    IF e.kind = "ok" THEN [lat |-> e.body.lat, lon |-> e.body.lon]
    ELSE defaultLocation

\* the last cache write of a key
LastWriteOf(key) ==
    CHOOSE w \in 1..Len(trace) :
        /\ IsWrite(w) /\ trace[w].key = key
        /\ \A k \in 1..Len(trace) : (IsWrite(k) /\ trace[k].key = key) => k <= w

\* C16 (amended): each of the concurrent resolutions of an uncached ip
\* returns the location of its own upstream outcome (the reported location,
\* or the default one after a failure), so that two of them return the same
\* location when their outcomes are the same; once all have completed, the
\* entry of the ip holds the location returned by the one that completed
\* last.
C16_LastCompletionIsCached ==
    \A i, j \in 1..Len(trace) :
        (/\ i < j
         /\ trace[i].kind = "lookup" /\ trace[j].kind = "lookup"
         /\ trace[i].key = trace[j].key
         /\ LastWriteBefore(j) = 0
         /\ \A k \in 1..Len(trace) :
                (trace[k].kind = "lookup" /\ trace[k].key = trace[i].key)
                    => reqs[trace[k].r].pc = "db")
        => LET ri == trace[i].r
               rj == trace[j].r
               ci == trace[Completion(ri)]
               cj == trace[Completion(rj)]
               w == trace[LastWriteOf(trace[i].key)]
           IN  /\ reqs[ri].userLocation = outcomeLocation(ci)
               /\ reqs[rj].userLocation = outcomeLocation(cj)
               /\ (ci.kind = cj.kind /\ ci.body = cj.body)
                    => reqs[ri].userLocation = reqs[rj].userLocation
               /\ w.kind \in ({"ok"} \cup FailKinds)
               /\ ipLocationCache[trace[i].key].location = reqs[w.r].userLocation

\* two concurrent resolutions of one ip returned two locations, and the
\* entry holds the one of the resolution that completed last
C16_Witness ==
    \E i, j \in 1..Len(trace) :
        /\ i < j
        /\ trace[i].kind = "lookup" /\ trace[j].kind = "lookup"
        /\ trace[i].key = trace[j].key
        /\ LastWriteBefore(j) = 0
        /\ reqs[trace[i].r].pc = "db" /\ reqs[trace[j].r].pc = "db"
        /\ reqs[trace[i].r].userLocation # reqs[trace[j].r].userLocation
        /\ Completion(trace[i].r) < Completion(trace[j].r)
        /\ ipLocationCache[trace[i].key].location = reqs[trace[j].r].userLocation

----------------------------------------------------------------------------
(* C18 - C20: failures *)

\* C18: a search request whose statement has been sent ends in one step,
\* with the page or, when the statement fails, with the 500 that carries the
\* error message and the detail; the statement is not sent again, and the
\* step changes nothing but that request: the other requests and the caches
\* are as they were, so that later requests are served as usual.
C18_StorageFailureIsLocal ==
    [][\A r \in DOMAIN reqs :
        (reqs[r].pc = "db" /\ reqs'[r] # reqs[r]) =>
            /\ reqs'[r].pc = "done"
            /\ \/ reqs'[r].response.status = 200
               \/ /\ reqs'[r].response.status = 500
                  /\ DOMAIN reqs'[r].response = {"status", "error", "details"}
                  /\ reqs'[r].response = errorResponse
            /\ \A q \in DOMAIN reqs : q # r => reqs'[q] = reqs[q]
            /\ UNCHANGED <<now, ipLocationCache, filtersCache, statesCache>>]_vars

\* a request got the 500 and the next request got its page
C18_Witness ==
    \E r1, r2 \in DOMAIN reqs :
        /\ r1 < r2
        /\ Done(r1) /\ reqs[r1].response = errorResponse
        /\ Ok(r2) /\ Len(reqs[r2].response.data) > 0
        /\ reqs[r2].rq = reqs[r1].rq

\* the last event of the resolver is a fallback of request r
JustFailed(r) ==
    /\ Len(trace') = Len(trace) + 1
    /\ trace'[Len(trace')].r = r
    /\ trace'[Len(trace')].kind \in FailKinds

\* request r went through a fallback of the resolver
HasFailed(r) ==
    \E i \in 1..Len(trace) : trace[i].r = r /\ trace[i].kind \in FailKinds

\* C19: whatever the outcome of the upstream call (network error, malformed
\* body, missing fields), the request goes on to its statement, with the
\* default location after a failure, and no error response is sent at that
\* step; the page it then returns is the one scored against the default
\* location.
C19_GeolocationFailureInvisible ==
    [][\A r \in DOMAIN reqs :
        /\ (reqs[r].pc = "geo" /\ reqs'[r] # reqs[r]) =>
                /\ reqs'[r].pc = "db"
                /\ reqs'[r].response = null
                /\ IsLocation(reqs'[r].userLocation)
                /\ JustFailed(r) => reqs'[r].userLocation = defaultLocation
        /\ (reqs[r].pc = "db" /\ reqs'[r].pc = "done" /\ HasFailed(r)
            /\ reqs'[r].response.status = 200)
            => \E tie \in Ties :
                reqs'[r].response =
                    response(reqs[r].rq,
                             searchRows(buildQuery(reqs[r].rq, defaultLocation), tie))]_vars

\* a search whose upstream call failed on the network returned a page
C19_Witness ==
    \E r \in DOMAIN reqs :
        /\ Ok(r)
        /\ \E i \in 1..Len(trace) : trace[i].r = r /\ trace[i].kind = "neterror"
        /\ reqs[r].userLocation = defaultLocation
        /\ Len(reqs[r].response.data) > 0

\* C20 (as stated): every call of getLocationFromIP that went to the upstream
\* service completes in the end, also when the service never answers, so
\* that the search responds.
C20_ResolveEventuallyCompletes ==
    \A r \in 1..MaxSearch :
        (reqs[r].pc = "geo") ~> (reqs[r].pc = "done")

----------------------------------------------------------------------------
(* C21 - C22: the cache writes of the resolver *)

\* the step completes a call of getLocationFromIP with an event of one of
\* the given kinds
Completes(kinds) ==
    /\ Len(trace') = Len(trace) + 1
    /\ trace'[Len(trace')].kind \in kinds

\* C21 (as stated): on every path, a call that completes has written the
\* entry of its ip: the location it returns, with the current time.
C21_EveryPathWritesCache ==
    [][Completes(ReturnKinds) =>
        LET e == trace'[Len(trace')] IN
        /\ e.key \in DOMAIN ipLocationCache'
        /\ ipLocationCache'[e.key] =
            [location |-> reqs'[e.r].userLocation, timestamp |-> now]]_vars

\* C21 (amended): a call that completes on the local path, on an upstream
\* answer or on a fallback has written the entry of its ip, the location it
\* returns with the current time; a call served from the cache returns the
\* cached location and leaves the entry, timestamp included, as it was.
C21_WritesUnlessServedFromCache ==
    [][/\ Completes(WriteKinds) =>
            LET e == trace'[Len(trace')] IN
            /\ e.key \in DOMAIN ipLocationCache'
            /\ ipLocationCache'[e.key] =
                [location |-> reqs'[e.r].userLocation, timestamp |-> now]
       /\ Completes({"hit"}) =>
            LET e == trace'[Len(trace')] IN
            /\ ipLocationCache' = ipLocationCache
            /\ reqs'[e.r].userLocation = ipLocationCache[e.key].location]_vars

\* a call was served from an entry that a fallback wrote earlier, and the
\* timestamp of the entry is still the one of that write
C21_Witness ==
    \E i, j \in 1..Len(trace) :
        /\ i < j
        /\ trace[i].kind \in FailKinds
        /\ trace[j].kind = "hit" /\ trace[j].key = trace[i].key
        /\ trace[i].t < trace[j].t
        /\ ipLocationCache[trace[j].key].timestamp = trace[i].t

\* the addresses that count as loopback or private
LocalAddresses ==
    {<<"127.0.0.1">>, <<"172.", "16.0.1">>, <<"192.168.", "1.5">>}

\* C22: a call for a loopback or private address (the prefix removed) that
\* finds no fresh entry returns the default location, writes it under that
\* address with the time of the call, and goes to no upstream lookup.
C22_LocalAddressGetsDefault ==
    \A j \in 1..Len(trace) :
        (IsStart(j) /\ trace[j].key \in LocalAddresses) =>
            LET w == LastWriteBefore(j) IN
            /\ trace[j].kind # "lookup"
            /\ (w = 0 \/ (w # 0 /\ trace[j].t - trace[w].t >= CACHE_TTL)) =>
                /\ trace[j].kind = "local"
                /\ trace[j].loc = defaultLocation
                /\ reqs[trace[j].r].userLocation = defaultLocation
                /\ reqs[trace[j].r].pc = "db"
                /\ (\A k \in (j + 1)..Len(trace) :
                        ~(IsWrite(k) /\ trace[k].key = trace[j].key))
                    => ipLocationCache[trace[j].key] =
                        [location |-> defaultLocation, timestamp |-> trace[j].t]

\* a call for a 172. address found the entry of an earlier call expired and
\* wrote the default location again
C22_Witness ==
    \E j \in 1..Len(trace) :
        /\ trace[j].kind = "local" /\ trace[j].key = <<"172.", "16.0.1">>
        /\ LastWriteBefore(j) # 0
        /\ trace[j].t - trace[LastWriteBefore(j)].t >= CACHE_TTL
        /\ ipLocationCache[trace[j].key] =
                [location |-> defaultLocation, timestamp |-> trace[j].t]

----------------------------------------------------------------------------
(* C23 - C24: what a page carries *)

\* C23 (as stated): two searches without a location that have the same
\* query, filters and offset return the same results in the same order.
C23_SameRequestSameData ==
    \A r1, r2 \in DOMAIN reqs :
        (/\ Ok(r1) /\ Ok(r2)
         /\ reqs[r1].handler = "main" /\ reqs[r2].handler = "main"
         /\ reqs[r1].rq = reqs[r2].rq
         /\ reqs[r1].rq.useLocation # "true")
        => reqs[r1].response.data = reqs[r2].response.data

\* C24 (as stated): every result of a page carries a number as its score,
\* never NaN or null.  res.json writes the number -Infinity as null.
C24_NoNullScore ==
    \A r \in DOMAIN reqs :
        Ok(r) =>
            \A k \in 1..Len(reqs[r].response.data) :
                /\ reqs[r].response.data[k].score # NegInfinity
                /\ reqs[r].response.data[k].score >= 0

----------------------------------------------------------------------------
(* C25 - C30: the text score *)

Scored(r) == reqs[r].pc = "scored"

\* the name and the query of a call, in lower case
nameOf(r) == toLowerCase(reqs[r].cityName)
queryOf(r) == toLowerCase(reqs[r].query)

\* q occurs in n between two boundaries: the start of n or a space before
\* it, the end of n or a space after it
WholeWordIn(n, q) ==
    \E i \in 1..(Len(n) - Len(q) + 1) :
        /\ SubSeq(n, i, i + Len(q) - 1) = q
        /\ IF i = 1 THEN TRUE ELSE n[i - 1] = " "
        /\ IF i + Len(q) - 1 = Len(n) THEN TRUE ELSE n[i + Len(q)] = " "

\* q occurs in n
SubstringOf(n, q) ==
    \E i \in 1..(Len(n) - Len(q) + 1) : SubSeq(n, i, i + Len(q) - 1) = q

\* the edit distance of a and b (unit costs) is at most k
RECURSIVE Within(_, _, _)
Within(a, b, k) ==
    IF a = <<>> THEN Len(b) <= k
    ELSE IF b = <<>> THEN Len(a) <= k
    ELSE IF Head(a) = Head(b) THEN Within(Tail(a), Tail(b), k)
    ELSE IF k = 0 THEN FALSE
    ELSE \/ Within(Tail(a), b, k - 1)
         \/ Within(a, Tail(b), k - 1)
         \/ Within(Tail(a), Tail(b), k - 1)

\* max(2, floor(0.3 * len(q)))
Threshold(q) == IF (3 * Len(q)) \div 10 > 2 THEN (3 * Len(q)) \div 10 ELSE 2

\* the edit distance of a and b, when it is within the threshold of q
editDistance(a, b, q) ==
    CHOOSE k \in 0..Threshold(q) :
        Within(a, b, k) /\ \A l \in 0..(k - 1) : ~Within(a, b, l)

\* rule 5: the full strings are within the threshold
FuzzyMatch(n, q) == Within(n, q, Threshold(q))

\* rule 6: the words of both, as String.prototype.split(/\s+/) gives them
PrefixPair(n, q) ==
    \E i \in 1..Len(split(n)), j \in 1..Len(split(q)) :
        startsWith(split(n)[i], split(q)[j])

FuzzyPair(n, q) ==
    \E i \in 1..Len(split(n)), j \in 1..Len(split(q)) :
        Within(split(n)[i], split(q)[j], Threshold(split(q)[j]))

\* C25: a name equal to the query, case ignored, scores 1.0; a name that
\* starts with the query, case ignored, without being equal to it scores
\* 0.95, which lies strictly between 0.8 and 1.0.
C25_ExactAndPrefix ==
    \A r \in DOMAIN reqs :
        Scored(r) =>
            /\ nameOf(r) = queryOf(r) => reqs[r].score = ScoreUnit
            /\ (nameOf(r) # queryOf(r)
                /\ Len(queryOf(r)) <= Len(nameOf(r))
                /\ SubSeq(nameOf(r), 1, Len(queryOf(r))) = queryOf(r))
                => /\ 100 * reqs[r].score = 95 * ScoreUnit
                   /\ 10 * reqs[r].score > 8 * ScoreUnit
                   /\ reqs[r].score < ScoreUnit

\* a name scored 0.95 against a shorter query written in another case
C25_Witness ==
    \E r \in DOMAIN reqs :
        /\ Scored(r)
        /\ reqs[r].cityName = <<"a", "B", "a">> /\ reqs[r].query = <<"A", "b">>
        /\ 100 * reqs[r].score = 95 * ScoreUnit

\* the name neither equals the query nor starts with it, case ignored
NotPrefix(r) ==
    ~(/\ Len(queryOf(r)) <= Len(nameOf(r))
      /\ SubSeq(nameOf(r), 1, Len(queryOf(r))) = queryOf(r))

\* C26: when the name neither equals nor starts with the query, it scores
\* 0.8 if the query occurs in it as a whole word, and 0.6 if the query occurs
\* in it but nowhere as a whole word.
C26_WholeWordAndSubstring ==
    \A r \in DOMAIN reqs :
        (Scored(r) /\ NotPrefix(r)) =>
            /\ WholeWordIn(nameOf(r), queryOf(r))
                => 10 * reqs[r].score = 8 * ScoreUnit
            /\ (SubstringOf(nameOf(r), queryOf(r)) /\ ~WholeWordIn(nameOf(r), queryOf(r)))
                => 10 * reqs[r].score = 6 * ScoreUnit

\* the query is the last word of the name, and it is also inside a word
C26_Witness ==
    \E r \in DOMAIN reqs :
        /\ Scored(r)
        /\ reqs[r].cityName = <<"a", "a", "a", " ", "b">> /\ reqs[r].query = <<"b">>
        /\ 10 * reqs[r].score = 8 * ScoreUnit

\* C27: when the query is not a substring of the name and the edit distance d
\* of the two lower-cased strings is at most max(2, floor(0.3 * len(q))), the
\* score is 0.4 + 0.2 * (1 - d / max(len(n), len(q))), between 0.4 and 0.6,
\* whatever the words of the two strings are.
C27_FuzzyFullString ==
    \A r \in DOMAIN reqs :
        (/\ Scored(r)
         /\ ~SubstringOf(nameOf(r), queryOf(r))
         /\ FuzzyMatch(nameOf(r), queryOf(r)))
        => LET d == editDistance(nameOf(r), queryOf(r), queryOf(r))
               longer == IF Len(nameOf(r)) > Len(queryOf(r))
                         THEN Len(nameOf(r)) ELSE Len(queryOf(r))
           IN  /\ 10 * longer * reqs[r].score
                    = 4 * longer * ScoreUnit + 2 * (longer - d) * ScoreUnit
               /\ 10 * reqs[r].score >= 4 * ScoreUnit
               /\ 10 * reqs[r].score <= 6 * ScoreUnit

\* a query of ten letters at distance 3, which only the 30% rule accepts,
\* scored 0.54
C27_Witness ==
    \E r \in DOMAIN reqs :
        /\ Scored(r)
        /\ Len(queryOf(r)) = 10
        /\ ~SubstringOf(nameOf(r), queryOf(r))
        /\ Within(nameOf(r), queryOf(r), 3) /\ ~Within(nameOf(r), queryOf(r), 2)
        /\ 100 * reqs[r].score = 54 * ScoreUnit

\* C28 (as stated): when rules 1 to 5 do not apply, the score is 0.5 if some
\* word of the name starts with some word of the query, whatever the order
\* of the words, and 0.4 only if there is no such pair and some pair of words
\* is within the threshold.
C28_PrefixPairBeforeFuzzyPair ==
    \A r \in DOMAIN reqs :
        (/\ Scored(r)
         /\ ~SubstringOf(nameOf(r), queryOf(r))
         /\ ~FuzzyMatch(nameOf(r), queryOf(r)))
        => /\ PrefixPair(nameOf(r), queryOf(r))
                => 10 * reqs[r].score = 5 * ScoreUnit
           /\ (~PrefixPair(nameOf(r), queryOf(r)) /\ FuzzyPair(nameOf(r), queryOf(r)))
                => 10 * reqs[r].score = 4 * ScoreUnit

\* none of the rules 1 to 6 applies
NoRule(r) ==
    /\ ~SubstringOf(nameOf(r), queryOf(r))
    /\ ~FuzzyMatch(nameOf(r), queryOf(r))
    /\ ~PrefixPair(nameOf(r), queryOf(r))
    /\ ~FuzzyPair(nameOf(r), queryOf(r))

\* C29: the text score lies between 0.2 and 1.0, is never zero, and is 0.2
\* exactly when none of the rules 1 to 6 applies.
C29_ScoreRange ==
    \A r \in DOMAIN reqs :
        Scored(r) =>
            /\ 10 * reqs[r].score >= 2 * ScoreUnit
            /\ reqs[r].score <= ScoreUnit
            /\ reqs[r].score # 0
            /\ (10 * reqs[r].score = 2 * ScoreUnit) <=> NoRule(r)

\* a name and a query with nothing in common scored 0.2
C29_Witness ==
    \E r \in DOMAIN reqs :
        /\ Scored(r)
        /\ reqs[r].cityName = <<"a", "a", "a">> /\ reqs[r].query = <<"b", "b", "b">>
        /\ 10 * reqs[r].score = 2 * ScoreUnit

\* C30 (as stated): the score of a name and a query is the score of the name
\* in upper case and the query in lower case.
C30_CaseInvariant ==
    \A r \in DOMAIN reqs :
        Scored(r) =>
            reqs[r].score =
                calculateTextMatchScore(toUpperCase(reqs[r].cityName),
                                        toLowerCase(reqs[r].query))

----------------------------------------------------------------------------
(* C31 - C36: the search handler, its parameters and the caches *)

\* the statement of a request of the current handler that has resolved its
\* location
statementOf(r) == buildQuery(reqs[r].rq, reqs[r].userLocation)

\* C31: hasMore is true exactly when offset + limit is below the total of the
\* response, which is exactly when cities that match remain beyond the page;
\* at offset 0, exactly when more than 10 cities match.
C31_HasMore ==
    \A r \in DOMAIN reqs :
        (Ok(r) /\ reqs[r].handler = "main") =>
            LET p == reqs[r].response.pagination
                matches == total_count(statementOf(r))
            IN  /\ p.hasMore <=> (p.offset + p.limit < p.total)
                /\ p.hasMore <=> (p.offset + Len(reqs[r].response.data) < matches)
                /\ p.offset = 0 => (p.hasMore <=> matches > 10)

\* the second page of 14 matches: nothing remains beyond it
C31_Witness ==
    \E r \in DOMAIN reqs :
        /\ Ok(r) /\ reqs[r].handler = "main"
        /\ reqs[r].response.pagination.offset = 10
        /\ reqs[r].response.pagination.total = 14
        /\ Len(reqs[r].response.data) = 4
        /\ ~reqs[r].response.pagination.hasMore

\* the address without a leading IPv4-mapped prefix
plainAddress(ip) == IF ip # <<>> /\ Head(ip) = V6Prefix THEN Tail(ip) ELSE ip

\* the requests that have called getLocationFromIP
Resolving(r) ==
    /\ reqs[r].pc # "idle"
    /\ reqs[r].handler = "main"
    /\ reqs[r].rq.useLocation = "true"

\* C32: the prefix '::ffff:' is removed before the cache is read or written:
\* a request works under the key of its address without the prefix, so that
\* '::ffff:' + a and a read and write the same entry, and no key of the cache
\* holds the prefix.
C32_PrefixStripped ==
    /\ \A key \in DOMAIN ipLocationCache :
            \A i \in 1..Len(key) : key[i] # V6Prefix
    /\ \A r \in DOMAIN reqs :
            Resolving(r) => reqs[r].key = plainAddress(reqs[r].userIp)
    /\ \A j \in 1..Len(trace) :
            /\ trace[j].key = plainAddress(reqs[trace[j].r].userIp)
            /\ trace[j].kind = "hit" =>
                    \E i \in 1..(j - 1) :
                        /\ IsWrite(i)
                        /\ trace[i].key = plainAddress(reqs[trace[j].r].userIp)
                        /\ trace[i].loc = trace[j].loc

\* the entry written for 8.8.8.8 serves a later call from ::ffff:8.8.8.8
C32_Witness ==
    \E i, j \in 1..Len(trace) :
        /\ i < j
        /\ IsWrite(i) /\ trace[i].kind = "ok"
        /\ reqs[trace[i].r].userIp = <<"8.8.8.8">>
        /\ trace[j].kind = "hit"
        /\ reqs[trace[j].r].userIp = <<V6Prefix, "8.8.8.8">>
        /\ DOMAIN ipLocationCache = {<<"8.8.8.8">>}

\* the requests of the current handler whose useLocation is not 'true'
NoLocationAsked(r) ==
    /\ reqs[r].pc # "idle"
    /\ reqs[r].handler = "main"
    /\ reqs[r].rq.useLocation # "true"

\* C33: a request whose useLocation is not 'true' never calls the resolver:
\* it reads no address, starts no lookup, leaves no event and has no location;
\* the step that receives it leaves the geolocation cache as it was; and the
\* distance score of each of its results is the neutral 0.5.
C33_NoLocationNoResolver ==
    /\ [](\A r \in DOMAIN reqs :
            NoLocationAsked(r) =>
                /\ reqs[r].pc # "geo"
                /\ reqs[r].userIp = <<>> /\ reqs[r].key = <<>>
                /\ reqs[r].userLocation = null
                /\ \A j \in 1..Len(trace) : trace[j].r # r
                /\ Ok(r) =>
                    \A k \in 1..Len(reqs[r].response.data) :
                        distanceScoreIn(r, reqs[r].response.data[k]) = ScoreUnit \div 2)
    /\ [][\A r \in DOMAIN reqs :
            (reqs[r] # reqs'[r] /\ NoLocationAsked(r)')
                => (ipLocationCache' = ipLocationCache /\ trace' = trace)]_vars

\* with an entry in the geolocation cache, a request whose useLocation is '1'
\* has been answered with results and has left no event
C33_Witness ==
    /\ ipLocationCache # <<>>
    /\ Len(trace) = 1
    /\ \E r \in DOMAIN reqs :
        /\ Ok(r) /\ reqs[r].rq.useLocation = "1"
        /\ reqs[r].response.data # <<>>
        /\ trace[1].r # r

\* the city satisfies the query and the filters of the request
Satisfies(i, rq) ==
    /\ truthy(rq.query) =>
            SubstringOf(toLowerCase(cities[i].city_name), toLowerCase(rq.query.v))
    /\ truthy(rq.country_code) =>
            cities[i].country_code = toUpperCase(rq.country_code.v)
    /\ truthy(rq.state_code) =>
            cities[i].state_code = toUpperCase(rq.state_code.v)

Filtered(rq) == truthy(rq.country_code) \/ truthy(rq.state_code)

\* C34: with a country filter, a state filter or both, every result has the
\* country code and the state code asked for, upper-cased; the total is the
\* number of cities that satisfy the query and the filters of the page
\* (reported as 0 when the page has no row), and the page holds such cities
\* whenever the offset lies below that number.
C34_FiltersApplyToPageAndTotal ==
    \A r \in DOMAIN reqs :
        (Ok(r) /\ reqs[r].handler = "main" /\ Filtered(reqs[r].rq)) =>
            LET rq == reqs[r].rq
                data == reqs[r].response.data
                p == reqs[r].response.pagination
                count == Cardinality({i \in 1..NCities : Satisfies(i, rq)})
            IN  /\ \A k \in 1..Len(data) :
                    /\ Satisfies(cityOf(data[k]), rq)
                    /\ truthy(rq.country_code) =>
                            data[k].country_code = toUpperCase(rq.country_code.v)
                    /\ truthy(rq.state_code) =>
                            data[k].state_code = toUpperCase(rq.state_code.v)
                /\ Len(data) = Min(limit, Max(0, count - p.offset))
                /\ p.total = IF data = <<>> THEN 0 ELSE count

\* the query 'a' with country 'fr' and state 'a': the page holds the cities
\* of FR / A that match, fewer than the query alone matches
C34_Witness ==
    \E r \in DOMAIN reqs :
        /\ Ok(r) /\ reqs[r].handler = "main"
        /\ reqs[r].rq.query = Str(<<"a">>)
        /\ reqs[r].rq.country_code = Str(<<"f", "r">>)
        /\ reqs[r].rq.state_code = Str(<<"a">>)
        /\ reqs[r].response.data # <<>>
        /\ reqs[r].response.pagination.total = Len(reqs[r].response.data)
        /\ reqs[r].response.pagination.total
                < Cardinality({i \in 1..NCities :
                        Satisfies(i, Input(Str(<<"a">>), undefined, "false",
                                           undefined, undefined))})

\* the step ends the recomputation of request r for the geolocation cache
GeoRecomputed(r) ==
    /\ reqs'[r].pc = "db" /\ reqs'[r].handler = "main"
    /\ reqs[r].pc \in {"idle", "geo"}
    /\ Len(trace') = Len(trace) + 1
    /\ LET e == trace'[Len(trace')] IN
        /\ e.r = r /\ e.kind \in WriteKinds /\ e.key = reqs'[r].key
        /\ DOMAIN ipLocationCache' = DOMAIN ipLocationCache \cup {e.key}
        /\ ipLocationCache'[e.key] = [location |-> e.loc, timestamp |-> now]
        /\ \A k \in DOMAIN ipLocationCache \ {e.key} :
                ipLocationCache'[k] = ipLocationCache[k]

\* the step ends the recomputation of request r for the filters cache
FiltersRecomputed(r) ==
    /\ reqs[r].pc = "states" /\ reqs[r].handler = "filters"
    /\ reqs'[r].pc = "done" /\ reqs'[r].response.status = 200
    /\ filtersCache' = [data |-> reqs'[r].response, timestamp |-> now]

\* the step ends the recomputation of request r for the states cache
StatesRecomputed(r) ==
    /\ reqs[r].pc = "query" /\ reqs[r].handler = "states"
    /\ reqs'[r].pc = "done" /\ reqs'[r].response.status = 200
    /\ LET key == reqs[r].countryCode IN
        /\ DOMAIN statesCache' = DOMAIN statesCache \cup {key}
        /\ statesCache'[key] = [states |-> reqs'[r].response.data, timestamp |-> now]
        /\ \A k \in DOMAIN statesCache \ {key} : statesCache'[k] = statesCache[k]

\* the step answers request r from a cache
CacheHit(r) ==
    /\ reqs[r].pc = "idle"
    /\ \/ /\ reqs'[r].pc = "db" /\ reqs'[r].handler = "main"
          /\ Len(trace') = Len(trace) + 1
          /\ trace'[Len(trace')].kind = "hit"
       \/ /\ reqs'[r].pc = "done" /\ reqs'[r].handler \in {"filters", "states"}

\* C35: a cache changes only in the step that ends the recomputation of a
\* request that found no fresh entry, and only by the entry of the key of that
\* request, written with the current time; a step that answers from a cache
\* changes no cache; no entry is ever removed.
C35_CachesChangeOnlyOnRecompute ==
    [][/\ ipLocationCache' # ipLocationCache => \E r \in DOMAIN reqs : GeoRecomputed(r)
       /\ filtersCache' # filtersCache => \E r \in DOMAIN reqs : FiltersRecomputed(r)
       /\ statesCache' # statesCache => \E r \in DOMAIN reqs : StatesRecomputed(r)
       /\ \A r \in DOMAIN reqs :
            CacheHit(r) => UNCHANGED <<ipLocationCache, filtersCache, statesCache>>
       /\ DOMAIN ipLocationCache \subseteq DOMAIN ipLocationCache'
       /\ DOMAIN statesCache \subseteq DOMAIN statesCache'
       /\ filtersCache.data # null => filtersCache'.data # null]_vars

\* the entry of an address has been written, has expired and has been written
\* again: the cache holds the one entry of the second write
C35_Witness ==
    \E i, j, k \in 1..Len(trace) :
        /\ i < j /\ j < k
        /\ trace[i].kind = "ok" /\ trace[k].kind = "ok"
        /\ trace[j].kind = "lookup"
        /\ trace[i].key = trace[j].key /\ trace[j].key = trace[k].key
        /\ trace[j].t >= trace[i].t + CACHE_TTL
        /\ DOMAIN ipLocationCache = {trace[k].key}
        /\ ipLocationCache[trace[k].key].timestamp = trace[k].t

\* the requests of the current handler that have built their statement
Built(r) == reqs[r].pc \in {"db", "done"} /\ reqs[r].handler = "main"

\* C36 (as stated): whatever the query, the filters and the location of a
\* request, positional parameter $1, against which the text match is
\* evaluated, is the query, or null when the request has none; the
\* coordinates, the limit and the offset are at the positions the statement
\* reads them from.
C36_TextMatchAgainstQuery ==
    \A r \in DOMAIN reqs :
        Built(r) =>
            LET rq == reqs[r].rq
                sq == statementOf(r)
                n == sq.paramIndex
            IN  /\ sq.queryParams[1] = IF truthy(rq.query) THEN Str(rq.query.v) ELSE SqlNull
                /\ Len(sq.queryParams) = n + 3
                /\ sq.queryParams[n] = IF reqs[r].userLocation # null
                                       THEN Num(reqs[r].userLocation.lat) ELSE SqlNull
                /\ sq.queryParams[n + 1] = IF reqs[r].userLocation # null
                                           THEN Num(reqs[r].userLocation.lon) ELSE SqlNull
                /\ sq.queryParams[n + 2] = Num(limit)
                /\ sq.queryParams[n + 3] = Num(parseInt(rq.offset))

----------------------------------------------------------------------------
(* C37 - C39: the clients of the pool and the states of a country *)

\* the tasks that take clients with pool.connect
UsesClient(r) == reqs[r].pc # "idle" /\ reqs[r].handler \in {"states", "startup"}

RECURSIVE heldFrom(_)
heldFrom(r) ==
    IF r > Len(reqs) THEN 0
    ELSE (IF UsesClient(r) THEN reqs[r].acquired - reqs[r].released ELSE 0)
            + heldFrom(r + 1)

\* the number of clients that are out of the pool
held == heldFrom(1)

\* C37: the startup task and every request of /states release the client
\* they have acquired exactly once, whether the statement resolves or
\* rejects, and never release one they have not acquired; a request answered
\* from the cache acquires none; when every task has ended, no client is held.
C37_ClientsReleased ==
    /\ \A r \in DOMAIN reqs :
        UsesClient(r) =>
            /\ reqs[r].acquired \in {0, 1}
            /\ reqs[r].released \in {0, reqs[r].acquired}
            /\ reqs[r].pc = "done" => reqs[r].released = reqs[r].acquired
            /\ reqs[r].pc \in {"query", "init_extension", "init_indexes"}
                    <=> (reqs[r].acquired = 1 /\ reqs[r].released = 0)
            /\ (reqs[r].handler = "states" /\ Served(r) /\ reqs[r].response.debug.cacheHit)
                    => reqs[r].acquired = 0
    /\ (\A r \in DOMAIN reqs : reqs[r].pc \in {"idle", "done"}) => held = 0

\* every task has ended, the startup task and a request whose statement was
\* rejected among them: each has acquired and released a client, none is held
C37_Witness ==
    /\ held = 0
    /\ \A r \in DOMAIN reqs : reqs[r].pc = "done"
    /\ \E r \in DOMAIN reqs :
        /\ reqs[r].handler = "startup"
        /\ reqs[r].acquired = 1 /\ reqs[r].released = 1
    /\ \E r \in DOMAIN reqs :
        /\ reqs[r].handler = "states" /\ reqs[r].response = statesError
        /\ reqs[r].acquired = 1 /\ reqs[r].released = 1

\* the keys of the states cache whose entry is fresh and whose country code
\* is the one of the code, letter case apart
FreshFor(countryCode) ==
    {k \in DOMAIN statesCache :
        /\ toUpperCase(k) = toUpperCase(countryCode)
        /\ now - statesCache[k].timestamp < statesCache_ttl}

\* C38 (as stated): the states cache is keyed by the upper-cased country code
\* that is sent to the storage: it holds one entry per country whatever the
\* letter case of the requests, and a request for a country that has a fresh
\* entry, under whatever letter case it was written, is answered from the
\* cache without a statement.
C38_StatesKeyNormalized ==
    /\ [](\A k1, k2 \in DOMAIN statesCache :
            toUpperCase(k1) = toUpperCase(k2) => k1 = k2)
    /\ [][\A r \in DOMAIN reqs :
            (/\ reqs[r].pc = "idle" /\ reqs'[r].pc # "idle"
             /\ reqs'[r].handler = "states"
             /\ FreshFor(reqs'[r].countryCode) # {})
                => /\ reqs'[r].pc = "done"
                   /\ reqs'[r].response.debug.cacheHit
                   /\ reqs'[r].queries = 0]_vars

\* the entry of a country code in the states map of a /filters response, an
\* absent entry counting as the empty list
statesEntry(filters, code) ==
    IF code \in DOMAIN filters.states THEN filters.states[code] ELSE <<>>

recordsOf(list) == {list[k] : k \in 1..Len(list)}

\* C39 (as stated): the states that /states/:countryCode returns for a country
\* code are the same set of {code, name} records as the entry of that country
\* (upper-cased, as it is sent to the storage) in the states map that /filters
\* returns, cities without state code or state name included.
C39_StatesAgreeWithFilters ==
    \A f, g \in DOMAIN reqs :
        (Served(f) /\ reqs[f].handler = "filters"
            /\ Served(g) /\ reqs[g].handler = "states") =>
                recordsOf(reqs[g].response.data)
                    = recordsOf(statesEntry(reqs[f].response,
                                            toUpperCase(reqs[g].countryCode)))

====
